---- MODULE Spec2Model ----
(***************************************************************************)
(* State-machine model of the agent-training console (src/app.js): page    *)
(* initialisation, the assignment client, next/previous navigation, the    *)
(* evaluation form controller and the debounced draft autosave.            *)
(*                                                                         *)
(* Strings the code inspects character by character (scenario keys, the    *)
(* notes field) are sequences of one-character strings; all other strings  *)
(* are TLA+ strings.  "" and << >> are the falsy empty strings of JS.      *)
(***************************************************************************)
EXTENDS Integers, Sequences, FiniteSets, TLC

(***************************************************************************)
(* Bounds of the model                                                     *)
(***************************************************************************)
\* longest assignment list a queue/done response carries
MaxQueue == 3
\* longest text typed into the notes field of the form
MaxNoteLen == 1
\* timer identifiers handed out by setTimeout
MaxTimerId == 3
\* clock ticks per debounce period
TimeSteps == 3
\* largest value of the persisted unlocked-scenario counter
MaxUnlocked == 2
\* draft saves started by the debounce timer whose response is outstanding
MaxInFlight == 1

\* most entries the failed-submission list holds before a submission
MaxFailed == 2

\* longest message list of a raw conversation
MaxMessages == 2

\* most checkbox values the form data holds for one category
MaxSelected == 3

\* most legacy-named properties of a raw scenario
MaxLegacy == 2

\* longest raw label list of a scenario
MaxLabels == 2

\* most controls of a form
MaxControls == 2

\* src/app.js:405, the quiet period of the draft autosave in milliseconds
DebounceMs == 1200

TickMs == DebounceMs \div TimeSteps

(***************************************************************************)
(* Strings as character sequences                                          *)
(***************************************************************************)
Digits == <<"0", "1", "2", "3", "4", "5", "6", "7", "8", "9">>

IsDigit(c) == \E i \in 1..10 : Digits[i] = c

DigitVal(c) == (CHOOSE i \in 1..10 : Digits[i] = c) - 1

IsSpace(c) == c = " "

RECURSIVE TrimLeft(_)
TrimLeft(s) == IF s # << >> /\ IsSpace(Head(s)) THEN TrimLeft(Tail(s)) ELSE s

RECURSIVE TrimRight(_)
TrimRight(s) ==
    IF s # << >> /\ IsSpace(s[Len(s)]) THEN TrimRight(SubSeq(s, 1, Len(s) - 1)) ELSE s

\* String.prototype.trim
Trim(s) == TrimRight(TrimLeft(s))

NaN == [nan |-> TRUE, n |-> 0]

Num(n) == [nan |-> FALSE, n |-> n]

RECURSIVE DigitPrefix(_)
DigitPrefix(s) ==
    IF s # << >> /\ IsDigit(Head(s)) THEN <<Head(s)>> \o DigitPrefix(Tail(s)) ELSE << >>

RECURSIVE DigitsValue(_)
DigitsValue(ds) ==
    IF ds = << >> THEN 0
    ELSE 10 * DigitsValue(SubSeq(ds, 1, Len(ds) - 1)) + DigitVal(ds[Len(ds)])

\* parseInt(s, 10): leading white space skipped, optional sign, then the
\* longest prefix of decimal digits; NaN when that prefix is empty
parseInt(s) ==
    LET t == TrimLeft(s)
        neg == t # << >> /\ Head(t) = "-"
        u == IF t # << >> /\ (Head(t) = "-" \/ Head(t) = "+") THEN Tail(t) ELSE t
        ds == DigitPrefix(u)
    IN IF ds = << >> THEN NaN
       ELSE Num(IF neg THEN 0 - DigitsValue(ds) ELSE DigitsValue(ds))

RECURSIVE NatToStr(_)
NatToStr(n) ==
    IF n < 10 THEN <<Digits[n + 1]>>
    ELSE NatToStr(n \div 10) \o <<Digits[(n % 10) + 1]>>

\* String(n) of an integer
NumToStr(n) == IF n < 0 THEN <<"-">> \o NatToStr(0 - n) ELSE NatToStr(n)

(***************************************************************************)
(* Sequence helpers                                                        *)
(***************************************************************************)
Range(s) == {s[i] : i \in 1..Len(s)}

SeqsUpTo(S, n) == UNION {[1..k -> S] : k \in 0..n}

\* Array.prototype.indexOf / findIndex with the code's 0-based result, -1 when absent
IndexWhere(s, P(_)) ==
    IF \E i \in 1..Len(s) : P(s[i])
    THEN (CHOOSE i \in 1..Len(s) : P(s[i]) /\ \A j \in 1..(i - 1) : ~P(s[j])) - 1
    ELSE 0 - 1

\* the element at a 0-based index
At(s, i) == s[i + 1]

\* ascending sort of a sequence of integers (Array.prototype.sort((a, b) => a - b))
RECURSIVE SortAsc(_)
SortAsc(s) ==
    IF s = << >> THEN << >>
    ELSE LET m == CHOOSE i \in 1..Len(s) :
                      /\ \A j \in 1..Len(s) : s[i] <= s[j]
                      /\ \A j \in 1..(i - 1) : s[j] # s[i]
         IN <<s[m]>> \o SortAsc(SubSeq(s, 1, m - 1) \o SubSeq(s, m + 1, Len(s)))

MapSeq(s, F(_)) == [i \in 1..Len(s) |-> F(s[i])]

(***************************************************************************)
(* Data of the model                                                       *)
(***************************************************************************)
AssignmentIds == {"a1", "a2", "a3"}

Token == "tok"

NoKey == << >>

K(c) == <<c>>

\* a URL: the page and its query parameters; EmptyUrl is the falsy ''
EmptyUrl == [path |-> "", aid |-> "", token |-> "", mode |-> "", scenario |-> NoKey, sid |-> ""]

\* the edit_url the backend puts into a queue entry of assignment id
EditUrl(id) == [path |-> "app.html", aid |-> id, token |-> Token, mode |-> "edit",
                scenario |-> NoKey, sid |-> ""]

\* queue entries the backend may return: two with an edit_url, one without
QueueItems ==
    {[assignment_id |-> id, edit_url |-> EditUrl(id)] : id \in AssignmentIds \ {"a3"}}
        \cup {[assignment_id |-> "a3", edit_url |-> EmptyUrl]}

\* assignment lists: no assignment is listed twice
QueueLists ==
    {q \in SeqsUpTo(QueueItems, MaxQueue) :
        \A i, j \in 1..Len(q) : q[i].assignment_id = q[j].assignment_id => i = j}

Item(id, hasUrl) ==
    [assignment_id |-> id, edit_url |-> IF hasUrl THEN EditUrl(id) ELSE EmptyUrl]

\* the lists of a backend with at most one other assignment
SmallQueueLists ==
    {<< >>, <<Item("a2", TRUE)>>, <<Item("a2", FALSE)>>, <<Item("a1", TRUE), Item("a2", TRUE)>>}

\* a backend whose only queue entry has no edit_url
UnlinkedQueueLists == {<< >>, <<Item("a2", FALSE)>>}

\* the lists the backend of this run may answer with
BackendLists(tag) ==
    IF tag = "short" THEN SmallQueueLists
    ELSE IF tag = "unlinked" THEN UnlinkedQueueLists
    ELSE QueueLists

\* what the backend answers to queue and done: a failure (non-2xx status or an
\* error field), a body without an assignments array, or one of its lists
QueueResponsesOf(lists) ==
    {[ok |-> TRUE, isArray |-> TRUE, assignments |-> q] : q \in lists}
        \cup {[ok |-> TRUE, isArray |-> FALSE, assignments |-> << >>],
              [ok |-> FALSE, isArray |-> FALSE, assignments |-> << >>]}

\* the step just taken received no queue or done response
NoReply == [op |-> "none", ok |-> FALSE, isArray |-> FALSE, assignments |-> << >>]

\* the step just taken received resp in answer to operation op
Reply(op, resp) == [op |-> op, ok |-> resp.ok, isArray |-> resp.isArray,
                    assignments |-> resp.assignments]

\* scenarios.json after loadScenariosData: entries in the order the document
\* lists them, each with the scenario key and the scenario's id
Entry(k, id) == [key |-> k, id |-> id]

Doc123 == <<Entry(K("1"), "s1"), Entry(K("2"), "s2"), Entry(K("3"), "s3")>>

Doc2And10 == <<Entry(<<"1", "0">>, "s1"), Entry(K("2"), "s2")>>

DocLeadingZero == <<Entry(<<"0", "1">>, "s1"), Entry(K("2"), "s2")>>

DocNoNumber == <<Entry(K("a"), "s1")>>

ScenarioDocs == {Doc123, Doc2And10, DocLeadingZero, DocNoNumber, << >>}

NoteChars == {" ", "x"}

NoteStrings == SeqsUpTo(NoteChars, MaxNoteLen)

InternalNotes == {"", "n"}

\* the controls of the evaluation form: one checkbox and the notes field
FormStates == [cb : BOOLEAN, notes : NoteStrings]

\* the form as the page's HTML declares it
HtmlForm == [cb |-> FALSE, notes |-> << >>]

\* a stored form state: absent, or the JSON text of a collected state
NoRaw == [kind |-> "none"]

Raw(state) == [kind |-> "json", cb |-> state.cb, notes |-> state.notes]

NoCtx == [assignment_id |-> "", send_id |-> "", role |-> "", mode |-> "", token |-> "",
          scenarioKey |-> NoKey, form_state_json |-> NoRaw, internal_note |-> ""]

\* what the backend answers to getAssignment for the requested id: a failure,
\* a body without the assignment, or the assignment record
AssignmentRecords(aid) ==
    [assignment_id : {aid}, send_id : {"s1", "s9"}, role : {"editor", "viewer", "owner"},
     form_state_json : {NoRaw, Raw([cb |-> FALSE, notes |-> << >>])},
     internal_note : {""}]

GetResponses(aid) ==
    {[ok |-> TRUE, hasAssignment |-> TRUE, assignment |-> a] : a \in AssignmentRecords(aid)}
        \cup {[ok |-> TRUE, hasAssignment |-> FALSE],
              [ok |-> FALSE, hasAssignment |-> FALSE]}

(***************************************************************************)
(* State                                                                   *)
(***************************************************************************)
VARIABLES
    url,                \* window.location of the loaded page: its query parameters
    scenariosJson,      \* the scenarios document the site serves
    backend,            \* which assignment lists the backend may answer with
    ls,                 \* localStorage
    phase,              \* "boot", "initQueue", "initGet", "ready", "left"
    location,           \* target of the page transition, EmptyUrl while the page stays
    allScenariosData,   \* the scenario map loaded at initialisation
    assignmentQueue,
    assignmentContext,
    currentScenario,    \* key of the scenario loaded into the page, NoKey when none
    form,               \* customForm's controls
    internalNotes,      \* value of the internal notes textarea
    readOnly,           \* controls disabled by setAssignmentReadOnlyState
    formStatus,
    draftSaveTimer,     \* id kept by the last setTimeout, 0 for null
    timers,             \* pending timers: id -> milliseconds left
    sinceEdit,          \* milliseconds since the last edit, capped at DebounceMs
    burst,              \* draft saves the timer has sent since the current burst of edits began
    draftsInFlight,     \* saveDraft requests of the timer that await their response
    timerSave,          \* the saveDraft request the last step sent from the timer, if any
    submit,             \* the running submit handler
    nav,                \* the running next/previous handler
    refreshPc,          \* "wait" while the refresh button's request is outstanding
    reply,              \* the queue or done response the last step received, if any
    input,              \* argument of the function applied on its own, NoInput on a page
    output              \* what that function returned, NoOutput before it has

vars == <<url, scenariosJson, backend, ls, phase, location, allScenariosData, assignmentQueue, assignmentContext, currentScenario, form, internalNotes, readOnly, formStatus, draftSaveTimer, timers, sinceEdit, burst, draftsInFlight, timerSave, submit, nav, refreshPc, reply, input, output>>

(***************************************************************************)
(* Scenario map and access control                                         *)
(***************************************************************************)
\* a key that JS treats as an array index: Object.keys lists these first, ascending
IsIndexKey(k) == LET p == parseInt(k) IN ~p.nan /\ p.n >= 0 /\ NumToStr(p.n) = k

\* the scenario map built from the document, in Object.keys order
coerceScenariosPayloadToMap(doc) ==
    LET idx == SelectSeq(doc, LAMBDA e : IsIndexKey(e.key))
        rest == SelectSeq(doc, LAMBDA e : ~IsIndexKey(e.key))
        nums == SortAsc(MapSeq(idx, LAMBDA e : parseInt(e.key).n))
        byNum(n) == CHOOSE e \in Range(idx) : parseInt(e.key).n = n
    IN MapSeq(nums, byNum) \o rest

\* scenarios[key] is defined
HasScenario(scenarios, key) == \E e \in Range(scenarios) : e.key = key

ScenarioOf(scenarios, key) == CHOOSE e \in Range(scenarios) : e.key = key

getCurrentUnlockedScenario ==
    IF ls.unlockedScenario # NoKey THEN parseInt(ls.unlockedScenario) ELSE Num(1)

isAdminUser == ls.agentName = "admin"

isCsvScenarioMode == FALSE

\* an access rule that also lets the user go back
canAccessScenarioUpTo(scenarioNumber) ==
    IF isAdminUser THEN TRUE
    ELSE LET currentUnlocked == getCurrentUnlockedScenario
             requestedScenario == parseInt(scenarioNumber)
         IN ~requestedScenario.nan /\ ~currentUnlocked.nan
                /\ requestedScenario.n <= currentUnlocked.n

canAccessScenario(scenarioNumber) ==
    IF isAdminUser THEN TRUE
    ELSE IF isCsvScenarioMode THEN TRUE
    ELSE LET currentUnlocked == getCurrentUnlockedScenario
             requestedScenario == parseInt(scenarioNumber)
         IN ~requestedScenario.nan /\ ~currentUnlocked.nan
                /\ requestedScenario.n = currentUnlocked.n

getScenarioNumberFromUrl == url.scenario

getScenarioIdFromUrl == url.sid

getPageModeFromUrl == IF url.mode = "view" THEN "view" ELSE "edit"

findScenarioKeyById(scenarios, scenarioId) ==
    IF scenarioId = "" THEN NoKey
    ELSE LET i == IndexWhere(scenarios, LAMBDA e : e.id = scenarioId)
         IN IF i >= 0 THEN At(scenarios, i).key ELSE NoKey

resolveRequestedScenarioKey(scenarios) ==
    LET sid == getScenarioIdFromUrl
        byId == findScenarioKeyById(scenarios, sid)
        byNumber == getScenarioNumberFromUrl
        stored == ls.currentScenarioNumber
    IN IF sid # "" /\ byId # NoKey THEN byId
       ELSE IF byNumber # NoKey /\ HasScenario(scenarios, byNumber) THEN byNumber
       ELSE IF stored # NoKey /\ HasScenario(scenarios, stored) THEN stored
       ELSE NoKey

buildScenarioUrl(scenarioKey, scenarios) ==
    LET key == Trim(scenarioKey)
        scenarioId == IF HasScenario(scenarios, key) THEN ScenarioOf(scenarios, key).id ELSE ""
    IN IF key = NoKey
       THEN [EmptyUrl EXCEPT !.path = "app.html"]
       ELSE [path |-> "app.html", aid |-> "", token |-> "", mode |-> getPageModeFromUrl,
             scenario |-> key, sid |-> scenarioId]

getCurrentScenarioNumber ==
    IF getScenarioNumberFromUrl # NoKey THEN getScenarioNumberFromUrl
    ELSE IF ls.currentScenarioNumber # NoKey THEN ls.currentScenarioNumber
    ELSE K("1")

getAssignmentParamsFromUrl ==
    [aid |-> url.aid, token |-> url.token, mode |-> IF url.mode = "view" THEN "view" ELSE "edit"]

getLoggedInEmail == ls.agentEmail

\* the keys of a scenario map as the navigation code orders them: parsed as
\* integers, the non-numbers dropped, sorted ascending, printed again
NumericScenarioKeys(data) ==
    LET parsed == MapSeq(data, LAMBDA e : parseInt(e.key))
        numbers == SelectSeq(parsed, LAMBDA p : ~p.nan)
    IN MapSeq(SortAsc(MapSeq(numbers, LAMBDA p : p.n)), NumToStr)

findScenarioBySendId(scenarios, sendId) ==
    LET i == IndexWhere(scenarios, LAMBDA e : e.id = sendId)
    IN IF i >= 0 THEN At(scenarios, i).key ELSE NoKey

(***************************************************************************)
(* Assignment client and form state helpers                                *)
(***************************************************************************)
\* the assignment list a queue/done response yields
ResponseAssignments(resp) == IF resp.isArray THEN resp.assignments ELSE << >>

\* a render that keeps the old queue when the response lists nothing
renderAssignmentQueueKeepOnEmpty(assignments) ==
    IF assignments = << >> THEN assignmentQueue ELSE assignments

\* renderAssignmentQueue (lines 236-257): the value assignmentQueue gets
renderAssignmentQueue(assignments) == assignments

applyCustomFormState(f, parsedState) ==
    IF parsedState.kind = "none" THEN f
    ELSE [cb |-> parsedState.cb, notes |-> parsedState.notes]

\* JSON.stringify(collectCustomFormState(customForm))
collectCustomFormState(f) == Raw(f)

\* customForm.reset() followed by checking every checkbox
ResetForm == [cb |-> TRUE, notes |-> << >>]

\* the localStorage key of the form snapshot: the assignment's when a context
\* with an id exists, the shared 'customFormState' otherwise
FormKeyIsAssignment(ctx) == ctx # NoCtx /\ ctx.assignment_id # ""

StoredFormState(store, ctx) ==
    IF FormKeyIsAssignment(ctx) THEN store.formDraft[ctx.assignment_id]
    ELSE store.customFormState

WriteFormState(store, ctx, raw) ==
    IF FormKeyIsAssignment(ctx)
    THEN [store EXCEPT !.formDraft[ctx.assignment_id] = raw]
    ELSE [store EXCEPT !.customFormState = raw]

\* lines 2227-2254, run when the handlers are registered: every checkbox is
\* checked, then the local snapshot, if any, is applied
restoreCustomFormState(f, store, ctx) ==
    applyCustomFormState([f EXCEPT !.cb = TRUE], StoredFormState(store, ctx))

(***************************************************************************)
(* Initial states: the page has been requested, nothing has run yet        *)
(***************************************************************************)
AppUrls == [path : {"app.html"}, aid : {"", "a1"}, token : {"", Token},
            mode : {"edit", "view"}, scenario : {NoKey, K("2"), K("3"), <<"0", "1">>},
            sid : {"", "s1"}]

LocalStorages ==
    [unlockedScenario : {NoKey} \cup {NumToStr(n) : n \in 2..MaxUnlocked},
     currentScenarioNumber : {NoKey, K("2")},
     agentName : {"alice", "admin"},
     agentEmail : {"", "e@x"},
     formDraft : [AssignmentIds -> {NoRaw, Raw([cb |-> FALSE, notes |-> <<"x">>])}],
     noteDraft : [AssignmentIds -> {""}],
     customFormState : {NoRaw}]

\* a first visit: nothing unlocked, no scenario remembered, no draft of another assignment
FreshStorages ==
    {l \in LocalStorages :
        /\ l.unlockedScenario = NoKey
        /\ l.currentScenarioNumber = NoKey
        /\ l.agentName = "alice"
        /\ \A a \in AssignmentIds \ {"a1"} : l.formDraft[a] = NoRaw}

\* a page opened on an assignment link, against a backend with a short queue
InitAssignment ==
    /\ url \in {u \in AppUrls : u.aid = "a1" /\ u.scenario = NoKey /\ u.sid = ""}
    /\ scenariosJson = Doc123
    /\ backend = "short"
    /\ ls \in FreshStorages

\* a page opened without parameters
InitPlain ==
    /\ url \in {u \in AppUrls : u.aid = "" /\ u.token = "" /\ u.mode = "edit"
                                /\ u.scenario = NoKey /\ u.sid = ""}
    /\ scenariosJson = Doc123
    /\ backend = "short"
    /\ ls \in {l \in FreshStorages : l.formDraft["a1"] = NoRaw}

\* a page opened on a scenario link, or with no parameters, by any user
InitScenarioLink ==
    /\ url \in {u \in AppUrls : u.aid = "" /\ u.token = "" /\ u.mode = "edit"}
    /\ scenariosJson \in ScenarioDocs
    /\ backend = "unlinked"
    /\ ls \in {l \in LocalStorages :
                 /\ l.agentEmail = "e@x"
                 /\ \A a \in AssignmentIds : l.formDraft[a] = NoRaw}

\* a page opened on an assignment link, against a backend with any queue
InitAssignmentLink ==
    /\ url \in {u \in AppUrls : u.aid = "a1" /\ u.token = Token /\ u.scenario = NoKey
                                /\ u.sid = ""}
    /\ scenariosJson = Doc123
    /\ backend = "any"
    /\ ls \in {l \in FreshStorages : l.agentEmail = "e@x" /\ l.formDraft["a1"] = NoRaw}

\* no next/previous handler is running; outcome tells how the last one ended,
\* index the queue index it chose (-1: none), startEmpty whether it found the
\* in-memory queue empty
NavIdle == [pc |-> "idle", dir |-> 0, outcome |-> "none", startEmpty |-> FALSE,
            index |-> 0 - 1]

SubmitIdle == [pc |-> "idle", sent |-> << >>, outcome |-> "none", evalOk |-> FALSE]

NoSave == [assignment_id |-> "", token |-> "",
           form_state_json |-> NoRaw, internal_note |-> ""]

NoInput == [fn |-> "none"]

NoOutput == [fn |-> "none"]

\* the page before its script has run
PageNotStarted ==
    /\ input = NoInput
    /\ output = NoOutput
    /\ phase = "boot"
    /\ location = EmptyUrl
    /\ allScenariosData = << >>
    /\ assignmentQueue = << >>
    /\ assignmentContext = NoCtx
    /\ currentScenario = NoKey
    /\ form = HtmlForm
    /\ internalNotes = ""
    /\ readOnly = FALSE
    /\ formStatus = ""
    /\ draftSaveTimer = 0
    /\ timers = {}
    /\ sinceEdit = DebounceMs
    /\ burst = 0
    /\ draftsInFlight = 0
    /\ timerSave = NoSave
    /\ submit = SubmitIdle
    /\ nav = NavIdle
    /\ refreshPc = "idle"
    /\ reply = NoReply

\* a page opened on the edit link of an assignment, first visit
InitEditLink ==
    /\ url \in {u \in AppUrls : u.aid = "a1" /\ u.token = Token /\ u.mode = "edit"
                                /\ u.scenario = NoKey /\ u.sid = ""}
    /\ scenariosJson = Doc123
    /\ backend = "short"
    /\ ls \in {l \in FreshStorages : l.agentEmail = "e@x" /\ l.formDraft["a1"] = NoRaw}

Init == (InitAssignment \/ InitPlain) /\ PageNotStarted

InitQueue == (InitEditLink \/ InitPlain) /\ PageNotStarted

InitForm == (InitAssignment \/ InitPlain) /\ PageNotStarted

InitNav == (InitScenarioLink \/ InitAssignmentLink) /\ PageNotStarted

\* no page is open: the state in which a function of the script is applied on
\* its own
PageClosed ==
    /\ url = EmptyUrl
    /\ scenariosJson = Doc123
    /\ backend = "short"
    /\ ls \in {l \in FreshStorages : l.agentEmail = "" /\ l.formDraft["a1"] = NoRaw}
    /\ phase = "boot"
    /\ location = EmptyUrl
    /\ allScenariosData = << >>
    /\ assignmentQueue = << >>
    /\ assignmentContext = NoCtx
    /\ currentScenario = NoKey
    /\ form = HtmlForm
    /\ internalNotes = ""
    /\ readOnly = FALSE
    /\ formStatus = ""
    /\ draftSaveTimer = 0
    /\ timers = {}
    /\ sinceEdit = DebounceMs
    /\ burst = 0
    /\ draftsInFlight = 0
    /\ timerSave = NoSave
    /\ submit = SubmitIdle
    /\ nav = NavIdle
    /\ refreshPc = "idle"
    /\ reply = NoReply
    /\ output = NoOutput

(***************************************************************************)
(* Page initialisation (lines 2061-2134, then 2221-2254)                   *)
(***************************************************************************)
QueueResponses == QueueResponsesOf(BackendLists(backend))

\* the scenario shown when no assignment is opened (lines 2110-2118, 2124-2132)
ActiveScenario(scenarios) ==
    LET scenarioKeys == NumericScenarioKeys(scenarios)
        resolved == resolveRequestedScenarioKey(scenarios)
        requestedScenario == IF resolved # NoKey THEN resolved ELSE getCurrentScenarioNumber
    IN IF HasScenario(scenarios, requestedScenario) THEN requestedScenario
       ELSE IF scenarioKeys # << >> THEN scenarioKeys[1]
       ELSE K("1")

\* initialisation goes on waiting for a response
InitWait(p, queue) ==
    /\ phase' = p
    /\ assignmentQueue' = queue
    /\ UNCHANGED <<ls, location, assignmentContext, currentScenario, form, internalNotes,
                   readOnly>>

\* setCurrentScenarioNumber and loadScenarioContent of the active scenario,
\* then the handlers are registered
ShowScenario(scenarios, queue) ==
    LET activeScenario == ActiveScenario(scenarios)
    IN /\ ls' = [ls EXCEPT !.currentScenarioNumber = activeScenario]
       /\ currentScenario' =
              IF HasScenario(scenarios, activeScenario) THEN activeScenario ELSE NoKey
       /\ assignmentQueue' = queue
       /\ form' = restoreCustomFormState(form, ls, NoCtx)
       /\ phase' = "ready"
       /\ UNCHANGED <<location, assignmentContext, internalNotes, readOnly>>

\* loadAssignmentContextFromUrl succeeded (lines 50-61, 2075-2096)
OpenAssignment(scenarios, assignment, scenarioKey) ==
    LET params == getAssignmentParamsFromUrl
        ctx == [assignment_id |-> assignment.assignment_id,
                send_id |-> assignment.send_id,
                role |-> IF assignment.role = "viewer" THEN "viewer" ELSE "editor",
                mode |-> params.mode,
                token |-> params.token,
                scenarioKey |-> scenarioKey,
                form_state_json |-> assignment.form_state_json,
                internal_note |-> assignment.internal_note]
        serverFormState == ctx.form_state_json
        localFormState == StoredFormState(ls, ctx)
        applied == applyCustomFormState(form,
                       IF serverFormState.kind # "none" THEN serverFormState ELSE localFormState)
        localNote == IF ctx.assignment_id # "" THEN ls.noteDraft[ctx.assignment_id] ELSE ""
        forceView == ctx.role = "viewer" \/ ctx.mode = "view"
    IN /\ assignmentContext' = ctx
       /\ currentScenario' = scenarioKey
       /\ internalNotes' = IF ctx.internal_note # "" THEN ctx.internal_note ELSE localNote
       /\ readOnly' = forceView
       /\ form' = restoreCustomFormState(applied, ls, ctx)
       /\ phase' = "ready"
       /\ UNCHANGED <<ls, location, assignmentQueue>>

\* window.location.href = target: the page is left, its handlers are gone
LeaveTo(target, queue) ==
    /\ phase' = "left"
    /\ location' = target
    /\ assignmentQueue' = queue
    /\ UNCHANGED <<ls, assignmentContext, currentScenario, form, internalNotes, readOnly>>

\* loadAssignmentContextFromUrl up to its request (lines 33-41)
StartAssignmentLoad(scenarios, queue) ==
    IF getAssignmentParamsFromUrl.token = ""
    THEN ShowScenario(scenarios, queue)
    ELSE InitWait("initGet", queue)

\* scenarios.json has been fetched; the first request of the assignment flow
PageInitStart ==
    /\ phase = "boot"
    /\ \E loaded \in BOOLEAN :
          IF ~loaded
          THEN /\ allScenariosData' = << >>
               /\ phase' = "ready"
               /\ form' = restoreCustomFormState(form, ls, NoCtx)
               /\ UNCHANGED <<ls, location, assignmentQueue, assignmentContext,
                              currentScenario, internalNotes, readOnly>>
          ELSE LET scenarios == coerceScenariosPayloadToMap(scenariosJson)
                   hasAid == getAssignmentParamsFromUrl.aid # ""
               IN /\ allScenariosData' = scenarios
                  /\ IF getLoggedInEmail # "" THEN InitWait("initQueue", assignmentQueue)
                     ELSE IF hasAid THEN StartAssignmentLoad(scenarios, assignmentQueue)
                     ELSE ShowScenario(scenarios, assignmentQueue)
    /\ reply' = NoReply
    /\ timerSave' = NoSave
    /\ UNCHANGED <<url, scenariosJson, backend, formStatus, draftSaveTimer, timers,
                   sinceEdit, burst, draftsInFlight, submit, nav, refreshPc, input,
                   output>>

\* the response to the queue request of initialisation (lines 2073, 2098-2108)
InitQueueResponse ==
    /\ phase = "initQueue"
    /\ \E resp \in QueueResponses :
          LET scenarios == allScenariosData
              hasAid == getAssignmentParamsFromUrl.aid # ""
              queue == renderAssignmentQueue(ResponseAssignments(resp))
          IN /\ reply' = Reply("queue", resp)
             /\ IF hasAid
                THEN StartAssignmentLoad(scenarios, IF resp.ok THEN queue ELSE assignmentQueue)
                ELSE IF ~resp.ok
                     THEN ShowScenario(scenarios, assignmentQueue)
                     ELSE IF queue = << >>
                          THEN ShowScenario(scenarios, queue)
                          ELSE IF queue[1].edit_url # EmptyUrl
                               THEN LeaveTo(queue[1].edit_url, queue)
                               ELSE ShowScenario(scenarios, queue)
    /\ timerSave' = NoSave
    /\ UNCHANGED <<url, scenariosJson, backend, allScenariosData, formStatus,
                   draftSaveTimer, timers, sinceEdit, burst, draftsInFlight, submit, nav,
                   refreshPc, input, output>>

\* the step just taken received the assignment in answer to getAssignment
GetAssignmentReply(assignment) ==
    [NoReply EXCEPT !.op = "getAssignment", !.ok = TRUE, !.assignments = <<assignment>>]

\* the response to getAssignment (lines 42-61, 2075-2096, 2120-2133)
InitGetResponse ==
    /\ phase = "initGet"
    /\ \E resp \in GetResponses(getAssignmentParamsFromUrl.aid) :
          LET scenarios == allScenariosData
          IN IF ~resp.ok \/ ~resp.hasAssignment
             THEN /\ reply' = NoReply
                  /\ ShowScenario(scenarios, assignmentQueue)
             ELSE LET scenarioKey == findScenarioBySendId(scenarios, resp.assignment.send_id)
                  IN /\ reply' = GetAssignmentReply(resp.assignment)
                     /\ IF scenarioKey = NoKey
                        THEN ShowScenario(scenarios, assignmentQueue)
                        ELSE OpenAssignment(scenarios, resp.assignment, scenarioKey)
    /\ timerSave' = NoSave
    /\ UNCHANGED <<url, scenariosJson, backend, allScenariosData, formStatus,
                   draftSaveTimer, timers, sinceEdit, burst, draftsInFlight, submit, nav,
                   refreshPc, input, output>>

(***************************************************************************)
(* Draft autosave (lines 371-406, 2166-2178, 2235-2275)                    *)
(***************************************************************************)
TimerIds(ts) == {t.id : t \in ts}

clearTimeout(ts, id) == {t \in ts : t.id # id}

\* a timer whose delay has elapsed and whose callback has not run yet
TimerDue == \E t \in timers : t.left = 0

\* the guards of saveAssignmentDraft (lines 372-373)
\* the step just taken received the response to a saveDraft request
SaveDraftReply(ok) == [NoReply EXCEPT !.op = "saveDraft", !.ok = ok]

CanSaveDraft(ctx) ==
    ctx # NoCtx /\ ctx.role = "editor" /\ ctx.assignment_id # "" /\ ctx.token # ""

\* a saveAssignmentDraft that leaves localStorage alone
DraftWritesSkipped(store, ctx, f, note) == store

\* the localStorage writes of saveAssignmentDraft (lines 375-382)
DraftWrites(store, ctx, f, note) ==
    [store EXCEPT !.formDraft[ctx.assignment_id] = collectCustomFormState(f),
                  !.noteDraft[ctx.assignment_id] = note]

\* the body of the saveDraft request (lines 384-389)
DraftPayload(ctx, f, note) ==
    [assignment_id |-> ctx.assignment_id, token |-> ctx.token,
     form_state_json |-> collectCustomFormState(f), internal_note |-> note]

\* setTimeout without the clearTimeout
RescheduledTimersKeepPending(ts, pending, id) ==
    ts \cup {[id |-> id, left |-> DebounceMs]}

\* setTimeout(callback, 1200) after the clearTimeout of lines 394-396
RescheduledTimers(ts, pending, id) ==
    (IF pending # 0 THEN clearTimeout(ts, pending) ELSE ts)
        \cup {[id |-> id, left |-> DebounceMs]}

\* scheduleAssignmentDraftSave: nothing without an editor context; otherwise
\* the pending timer is cleared and a new one is set
scheduleAssignmentDraftSave ==
    IF assignmentContext = NoCtx \/ assignmentContext.role # "editor"
    THEN UNCHANGED <<draftSaveTimer, timers>>
    ELSE \E id \in 1..MaxTimerId :
            /\ id \notin TimerIds(timers)
            /\ \A j \in 1..(id - 1) : j \in TimerIds(timers)
            /\ timers' = RescheduledTimers(timers, draftSaveTimer, id)
            /\ draftSaveTimer' = id

\* an edit that schedules a draft save restarts the quiet period; it starts a
\* new burst when the quiet period since the previous edit was over
EditClock ==
    IF assignmentContext = NoCtx \/ assignmentContext.role # "editor"
    THEN UNCHANGED <<sinceEdit, burst>>
    ELSE /\ sinceEdit' = 0
         /\ burst' = IF sinceEdit >= DebounceMs THEN 0 ELSE burst

\* user events reach the page once it is initialised; a timer that is due runs
\* before an event that arrives after it
UserEvent == phase = "ready" /\ ~TimerDue

\* saveCustomFormState (lines 2235-2242), the handler of the form's 'input'
\* and 'change' events, for the form f the event has left
saveCustomFormState(f) ==
    /\ form' = f
    /\ ls' = WriteFormState(ls, assignmentContext, collectCustomFormState(f))
    /\ scheduleAssignmentDraftSave
    /\ EditClock

\* customForm 'input' / 'change': the user has changed a control
FormInput ==
    /\ UserEvent
    /\ ~readOnly
    /\ \E f \in FormStates :
          /\ f # form
          /\ (f.cb = form.cb \/ f.notes = form.notes)
          /\ saveCustomFormState(f)
    /\ reply' = NoReply
    /\ timerSave' = NoSave
    /\ UNCHANGED <<url, scenariosJson, backend, phase, location, allScenariosData,
                   assignmentQueue, assignmentContext, currentScenario, internalNotes,
                   readOnly, formStatus, draftsInFlight, submit, nav, refreshPc, input,
                   output>>

\* the handler of the 'input' event of internalNotes (lines 2168-2178), for the
\* value v the event has left
NotesHandler(v) ==
    /\ internalNotes' = v
    /\ IF assignmentContext # NoCtx /\ assignmentContext.assignment_id # ""
       THEN /\ ls' = [ls EXCEPT !.noteDraft[assignmentContext.assignment_id] = v]
            /\ scheduleAssignmentDraftSave
            /\ EditClock
       ELSE UNCHANGED <<ls, draftSaveTimer, timers, sinceEdit, burst>>

\* internalNotes 'input': the user has changed the note
NotesInput ==
    /\ UserEvent
    /\ ~readOnly
    /\ \E v \in InternalNotes :
          /\ v # internalNotes
          /\ NotesHandler(v)
    /\ reply' = NoReply
    /\ timerSave' = NoSave
    /\ UNCHANGED <<url, scenariosJson, backend, phase, location, allScenariosData,
                   assignmentQueue, assignmentContext, currentScenario, form, readOnly,
                   formStatus, draftsInFlight, submit, nav, refreshPc, input, output>>

\* an 'input' or 'change' event reaches the form while its controls are
\* disabled (an event a script dispatches): the handler runs on the form as
\* it is
FormEventReadOnly ==
    /\ UserEvent
    /\ readOnly
    /\ saveCustomFormState(form)
    /\ reply' = NoReply
    /\ timerSave' = NoSave
    /\ UNCHANGED <<url, scenariosJson, backend, phase, location, allScenariosData,
                   assignmentQueue, assignmentContext, currentScenario, internalNotes,
                   readOnly, formStatus, draftsInFlight, submit, nav, refreshPc, input,
                   output>>

\* an 'input' event reaches internalNotes while it is disabled
NotesEventReadOnly ==
    /\ UserEvent
    /\ readOnly
    /\ NotesHandler(internalNotes)
    /\ reply' = NoReply
    /\ timerSave' = NoSave
    /\ UNCHANGED <<url, scenariosJson, backend, phase, location, allScenariosData,
                   assignmentQueue, assignmentContext, currentScenario, form, readOnly,
                   formStatus, draftsInFlight, submit, nav, refreshPc, input, output>>

\* clearFormBtn 'click' (lines 2258-2274)
ClearForm ==
    /\ UserEvent
    /\ ~readOnly
    /\ form' = ResetForm
    /\ ls' = WriteFormState(ls, assignmentContext, NoRaw)
    /\ scheduleAssignmentDraftSave
    /\ formStatus' = ""
    /\ EditClock
    /\ reply' = NoReply
    /\ timerSave' = NoSave
    /\ UNCHANGED <<url, scenariosJson, backend, phase, location, allScenariosData,
                   assignmentQueue, assignmentContext, currentScenario, internalNotes,
                   readOnly, draftsInFlight, submit, nav, refreshPc, input, output>>

\* the debounce timer fires (lines 397-405): saveAssignmentDraft up to its request
TimerFire ==
    /\ phase = "ready"
    /\ \E t \in timers :
          /\ t.left = 0
          /\ timers' = timers \ {t}
    /\ IF CanSaveDraft(assignmentContext)
       THEN /\ draftsInFlight < MaxInFlight
            /\ draftsInFlight' = draftsInFlight + 1
            /\ ls' = DraftWrites(ls, assignmentContext, form, internalNotes)
            /\ timerSave' = DraftPayload(assignmentContext, form, internalNotes)
            /\ burst' = burst + 1
       ELSE /\ timerSave' = NoSave
            /\ UNCHANGED <<ls, draftsInFlight, burst>>
    /\ reply' = NoReply
    /\ UNCHANGED <<url, scenariosJson, backend, phase, location, allScenariosData,
                   assignmentQueue, assignmentContext, currentScenario, form,
                   internalNotes, readOnly, formStatus, draftSaveTimer, sinceEdit,
                   submit, nav, refreshPc, input, output>>

\* the response to a saveDraft request the timer sent (lines 399-404): success
\* and failure differ in the status line only
DraftSaveResponse ==
    /\ phase = "ready"
    /\ draftsInFlight > 0
    /\ draftsInFlight' = draftsInFlight - 1
    /\ \E ok \in BOOLEAN : reply' = SaveDraftReply(ok)
    /\ timerSave' = NoSave
    /\ UNCHANGED <<url, scenariosJson, backend, ls, phase, location, allScenariosData,
                   assignmentQueue, assignmentContext, currentScenario, form,
                   internalNotes, readOnly, formStatus, draftSaveTimer, timers,
                   sinceEdit, burst, submit, nav, refreshPc, input, output>>

\* time passes, unless a timer is due
Tick ==
    /\ phase = "ready"
    /\ ~TimerDue
    /\ timers # {} \/ sinceEdit < DebounceMs
    /\ timers' = {[t EXCEPT !.left = IF @ > TickMs THEN @ - TickMs ELSE 0] : t \in timers}
    /\ sinceEdit' = IF sinceEdit + TickMs < DebounceMs THEN sinceEdit + TickMs ELSE DebounceMs
    /\ reply' = NoReply
    /\ timerSave' = NoSave
    /\ UNCHANGED <<url, scenariosJson, backend, ls, phase, location, allScenariosData,
                   assignmentQueue, assignmentContext, currentScenario, form,
                   internalNotes, readOnly, formStatus, draftSaveTimer, burst,
                   draftsInFlight, submit, nav, refreshPc, input, output>>

(***************************************************************************)
(* Evaluation form submit (lines 2277-2449)                                *)
(***************************************************************************)
\* the success branch without navigation (lines 2422-2433)
SubmitReset ==
    /\ formStatus' = "Submitted successfully."
    /\ form' = ResetForm
    /\ ls' = WriteFormState(ls, assignmentContext, NoRaw)

\* a gate that looks at the role only
SubmitRejectedByRoleOnly(ctx) == ctx # NoCtx /\ ctx.role # "editor"

\* the client-side gate of lines 2279-2285
SubmitRejected(ctx) == ctx # NoCtx /\ (ctx.role # "editor" \/ ctx.mode = "view")

\* a validation that does not trim
NotesMissingUntrimmed(f) == f.notes = << >>

\* the required-field validation of lines 2343-2352
NotesMissing(f) == Trim(f.notes) = << >>

\* the 'submit' event up to the evaluation POST (lines 2277-2391)
SubmitStart ==
    /\ phase = "ready"
    /\ submit.pc = "idle"
    /\ IF SubmitRejected(assignmentContext)
       THEN /\ formStatus' = "View-only link cannot submit."
            /\ submit' = [SubmitIdle EXCEPT !.outcome = "rejected"]
       ELSE IF NotesMissing(form)
       THEN /\ formStatus' = "Notes field is required."
            /\ submit' = [SubmitIdle EXCEPT !.outcome = "invalid"]
       ELSE /\ formStatus' = "Submitting..."
            /\ submit' = [pc |-> "eval", sent |-> <<"evaluation">>, outcome |-> "pending",
                           evalOk |-> FALSE]
    /\ reply' = NoReply
    /\ timerSave' = NoSave
    /\ UNCHANGED <<url, scenariosJson, backend, ls, phase, location, allScenariosData,
                   assignmentQueue, assignmentContext, currentScenario, form,
                   internalNotes, readOnly, draftSaveTimer, timers, sinceEdit, burst,
                   draftsInFlight, nav, refreshPc, input, output>>

\* the response to the evaluation POST (lines 2392-2409, 2434-2448)
SubmitEvalResponse ==
    /\ phase = "ready"
    /\ submit.pc = "eval"
    /\ \E success \in BOOLEAN :
          IF ~success
          THEN /\ formStatus' = "Submission failed."
               /\ submit' = [submit EXCEPT !.pc = "idle", !.outcome = "failed"]
               /\ UNCHANGED <<ls, form>>
          ELSE IF assignmentContext # NoCtx /\ assignmentContext.role = "editor"
          THEN /\ IF CanSaveDraft(assignmentContext)
                  THEN /\ ls' = DraftWrites(ls, assignmentContext, form, internalNotes)
                       /\ submit' = [submit EXCEPT !.pc = "draft", !.evalOk = TRUE,
                                                   !.sent = Append(@, "saveDraft")]
                  ELSE /\ submit' = [submit EXCEPT !.pc = "done", !.evalOk = TRUE,
                                                   !.sent = Append(@, "done")]
                       /\ UNCHANGED ls
               /\ UNCHANGED <<formStatus, form>>
          ELSE /\ SubmitReset
               /\ submit' = [submit EXCEPT !.pc = "idle", !.evalOk = TRUE,
                                           !.outcome = "reset"]
    /\ reply' = NoReply
    /\ timerSave' = NoSave
    /\ UNCHANGED <<url, scenariosJson, backend, phase, location, allScenariosData,
                   assignmentQueue, assignmentContext, currentScenario, internalNotes,
                   readOnly, draftSaveTimer, timers, sinceEdit, burst, draftsInFlight,
                   nav, refreshPc, input, output>>

\* the response to the submit's saveDraft, failure ignored; then the done
\* request (lines 2409-2414)
SubmitDraftResponse ==
    /\ phase = "ready"
    /\ submit.pc = "draft"
    /\ submit' = [submit EXCEPT !.pc = "done", !.sent = Append(@, "done")]
    /\ \E ok \in BOOLEAN : reply' = SaveDraftReply(ok)
    /\ timerSave' = NoSave
    /\ UNCHANGED <<url, scenariosJson, backend, ls, phase, location, allScenariosData,
                   assignmentQueue, assignmentContext, currentScenario, form,
                   internalNotes, readOnly, formStatus, draftSaveTimer, timers,
                   sinceEdit, burst, draftsInFlight, nav, refreshPc, input, output>>

\* the response to done (lines 2410-2433, 2440-2448)
SubmitDoneResponse ==
    /\ phase = "ready"
    /\ submit.pc = "done"
    /\ \E resp \in QueueResponses :
          /\ reply' = Reply("done", resp)
          /\ IF ~resp.ok
             THEN /\ formStatus' = "Submission failed."
                  /\ submit' = [submit EXCEPT !.pc = "idle", !.outcome = "failed"]
                  /\ UNCHANGED <<ls, form, assignmentQueue, phase, location>>
             ELSE LET nextQueue == ResponseAssignments(resp)
                  IN /\ assignmentQueue' = renderAssignmentQueue(nextQueue)
                     /\ IF nextQueue # << >> /\ nextQueue[1].edit_url # EmptyUrl
                        THEN /\ phase' = "left"
                             /\ location' = nextQueue[1].edit_url
                             /\ submit' = [submit EXCEPT !.pc = "idle", !.outcome = "navigated"]
                             /\ UNCHANGED <<ls, form, formStatus>>
                        ELSE /\ SubmitReset
                             /\ submit' = [submit EXCEPT !.pc = "idle", !.outcome = "reset"]
                             /\ UNCHANGED <<phase, location>>
    /\ timerSave' = NoSave
    /\ UNCHANGED <<url, scenariosJson, backend, allScenariosData, assignmentContext,
                   currentScenario, internalNotes, readOnly, draftSaveTimer, timers,
                   sinceEdit, burst, draftsInFlight, nav, refreshPc, input, output>>

(***************************************************************************)
(* Refresh button (lines 21-31, 2143-2158); the status line is not modelled *)
(***************************************************************************)
RefreshClick ==
    /\ phase = "ready"
    /\ refreshPc = "idle"
    /\ refreshPc' = IF getLoggedInEmail = "" THEN "idle" ELSE "wait"
    /\ reply' = NoReply
    /\ timerSave' = NoSave
    /\ UNCHANGED <<url, scenariosJson, backend, ls, phase, location, allScenariosData,
                   assignmentQueue, assignmentContext, currentScenario, form,
                   internalNotes, readOnly, formStatus, draftSaveTimer, timers,
                   sinceEdit, burst, draftsInFlight, submit, nav, input, output>>

\* a refresh handler that shows an empty queue when the request fails
RefreshResponseClearsOnFailure ==
    /\ phase = "ready"
    /\ refreshPc = "wait"
    /\ refreshPc' = "idle"
    /\ \E resp \in QueueResponses :
          /\ reply' = Reply("queue", resp)
          /\ assignmentQueue' = renderAssignmentQueue(ResponseAssignments(resp))
    /\ timerSave' = NoSave
    /\ UNCHANGED <<url, scenariosJson, backend, ls, phase, location, allScenariosData,
                   assignmentContext, currentScenario, form, internalNotes, readOnly,
                   formStatus, draftSaveTimer, timers, sinceEdit, burst, draftsInFlight,
                   submit, nav, input, output>>

\* the response to the refresh button's queue request (lines 2147-2156)
RefreshResponse ==
    /\ phase = "ready"
    /\ refreshPc = "wait"
    /\ refreshPc' = "idle"
    /\ \E resp \in QueueResponses :
          /\ reply' = Reply("queue", resp)
          /\ IF ~resp.ok
             THEN UNCHANGED assignmentQueue
             ELSE assignmentQueue' = renderAssignmentQueue(ResponseAssignments(resp))
    /\ timerSave' = NoSave
    /\ UNCHANGED <<url, scenariosJson, backend, ls, phase, location, allScenariosData,
                   assignmentContext, currentScenario, form, internalNotes, readOnly,
                   formStatus, draftSaveTimer, timers, sinceEdit, burst, draftsInFlight,
                   submit, nav, input, output>>

(***************************************************************************)
(* Next / previous navigation (lines 1723-1792, 1859-1874)                 *)
(***************************************************************************)
\* a target index that always steps forward
QueueTargetIndexForward(queue, currentId, direction) ==
    LET currentIndex == IF currentId # ""
                        THEN IndexWhere(queue, LAMBDA item : item.assignment_id = currentId)
                        ELSE 0 - 1
    IN IF currentIndex >= 0 THEN (currentIndex + 1) % Len(queue) ELSE 0

\* the target index navigateAssignmentQueue computes (lines 1751-1760)
QueueTargetIndex(queue, currentId, direction) ==
    LET currentIndex == IF currentId # ""
                        THEN IndexWhere(queue, LAMBDA item : item.assignment_id = currentId)
                        ELSE 0 - 1
        fallbackIndex == IF direction > 0 THEN 0 ELSE Len(queue) - 1
    IN IF currentIndex >= 0
       THEN (currentIndex + direction + Len(queue)) % Len(queue)
       ELSE fallbackIndex

\* the target index navigateScenarioList computes (lines 1732-1737)
ScenarioTargetIndex(keys, current, direction) ==
    LET currentIndex == IndexWhere(keys, LAMBDA k : k = current)
        fallbackIndex == IF direction > 0 THEN 0 ELSE Len(keys) - 1
    IN IF currentIndex >= 0
       THEN (currentIndex + direction + Len(keys)) % Len(keys)
       ELSE fallbackIndex

\* the queue navigateAssignmentQueue works on once a refresh has answered
\* (line 1747): the refreshed list, the empty list when the refresh failed
RefreshedQueue(resp) == IF resp.ok THEN ResponseAssignments(resp) ELSE << >>

\* a navigateAssignmentQueue that goes to the target whether or not it has a URL
navigateAssignmentQueueAnyUrl(queue, rec) ==
    IF queue = << >>
    THEN /\ nav' = [rec EXCEPT !.pc = "scen"]
         /\ UNCHANGED <<phase, location>>
    ELSE LET targetIndex == QueueTargetIndex(queue, assignmentContext.assignment_id, rec.dir)
         IN /\ nav' = [rec EXCEPT !.index = targetIndex, !.pc = "idle",
                                  !.outcome = "assignment"]
            /\ phase' = "left"
            /\ location' = At(queue, targetIndex).edit_url

\* navigateAssignmentQueue once the queue to use is known (lines 1749-1765);
\* without a target URL navigateConversation goes on to navigateScenarioList,
\* which first fetches scenarios.json
navigateAssignmentQueue(queue, rec) ==
    IF queue = << >>
    THEN /\ nav' = [rec EXCEPT !.pc = "scen"]
         /\ UNCHANGED <<phase, location>>
    ELSE LET currentId == assignmentContext.assignment_id
             targetIndex == QueueTargetIndex(queue, currentId, rec.dir)
             target == At(queue, targetIndex)
             used == [rec EXCEPT !.index = targetIndex]
         IN IF target.edit_url = EmptyUrl
            THEN /\ nav' = [used EXCEPT !.pc = "scen"]
                 /\ UNCHANGED <<phase, location>>
            ELSE /\ nav' = [used EXCEPT !.pc = "idle", !.outcome = "assignment"]
                 /\ phase' = "left"
                 /\ location' = target.edit_url

\* navigateConversation(direction) up to its first request (lines 1744-1748, 1768-1773)
navigateConversation(direction) ==
    /\ phase = "ready"
    /\ nav.pc = "idle"
    /\ LET rec == [NavIdle EXCEPT !.dir = direction, !.outcome = "pending",
                                  !.startEmpty = (assignmentQueue = << >>)]
       IN IF assignmentQueue = << >>
          THEN /\ nav' = [rec EXCEPT !.pc = IF getLoggedInEmail = "" THEN "scen" ELSE "queue"]
               /\ UNCHANGED <<phase, location>>
          ELSE navigateAssignmentQueue(assignmentQueue, rec)
    /\ reply' = NoReply
    /\ timerSave' = NoSave
    /\ UNCHANGED <<url, scenariosJson, backend, ls, allScenariosData, assignmentQueue,
                   assignmentContext, currentScenario, form, internalNotes, readOnly,
                   formStatus, draftSaveTimer, timers, sinceEdit, burst, draftsInFlight,
                   submit, refreshPc, input, output>>

\* previousConversationBtn / nextConversationBtn 'click'
NavClick ==
    /\ ~readOnly
    /\ \E direction \in {0 - 1, 1} : navigateConversation(direction)

\* 'keydown' of ArrowLeft / ArrowRight outside a typing target
NavKey == \E direction \in {0 - 1, 1} : navigateConversation(direction)

\* the response to the queue request of navigateAssignmentQueue (line 1747)
NavQueueResponse ==
    /\ phase = "ready"
    /\ nav.pc = "queue"
    /\ \E resp \in QueueResponses :
          /\ reply' = Reply("queue", resp)
          /\ assignmentQueue' = IF resp.ok THEN renderAssignmentQueue(ResponseAssignments(resp))
                                ELSE assignmentQueue
          /\ navigateAssignmentQueue(RefreshedQueue(resp), nav)
    /\ timerSave' = NoSave
    /\ UNCHANGED <<url, scenariosJson, backend, ls, allScenariosData, assignmentContext,
                   currentScenario, form, internalNotes, readOnly, formStatus,
                   draftSaveTimer, timers, sinceEdit, burst, draftsInFlight, submit,
                   refreshPc, input, output>>

\* navigateScenarioList once scenarios.json is fetched (lines 1724-1742)
navigateScenarioList ==
    /\ phase = "ready"
    /\ nav.pc = "scen"
    /\ \E loaded \in BOOLEAN :
          LET data == coerceScenariosPayloadToMap(scenariosJson)
              keys == NumericScenarioKeys(data)
              current == getCurrentScenarioNumber
              targetIndex == ScenarioTargetIndex(keys, current, nav.dir)
              targetScenario == At(keys, targetIndex)
              used == [nav EXCEPT !.pc = "idle"]
          IN IF ~loaded
             THEN /\ nav' = [nav EXCEPT !.pc = "idle", !.outcome = "nodata"]
                  /\ UNCHANGED <<ls, phase, location>>
             ELSE IF keys = << >>
             THEN /\ nav' = [used EXCEPT !.outcome = "nokeys"]
                  /\ UNCHANGED <<ls, phase, location>>
             ELSE IF ~isCsvScenarioMode /\ ~canAccessScenario(targetScenario)
             THEN /\ nav' = [used EXCEPT !.outcome = "dropped"]
                  /\ UNCHANGED <<ls, phase, location>>
             ELSE /\ nav' = [used EXCEPT !.outcome = "scenario"]
                  /\ ls' = [ls EXCEPT !.currentScenarioNumber = targetScenario]
                  /\ phase' = "left"
                  /\ location' = buildScenarioUrl(targetScenario, data)
    /\ reply' = NoReply
    /\ timerSave' = NoSave
    /\ UNCHANGED <<url, scenariosJson, backend, allScenariosData, assignmentQueue,
                   assignmentContext, currentScenario, form, internalNotes, readOnly,
                   formStatus, draftSaveTimer, timers, sinceEdit, burst, draftsInFlight,
                   submit, refreshPc, input, output>>

\* endConversation (lines 1794-1821): the next scenario is unlocked
endConversation ==
    /\ phase = "ready"
    /\ ~getCurrentUnlockedScenario.nan
    /\ getCurrentUnlockedScenario.n + 1 <= MaxUnlocked
    /\ ls' = [ls EXCEPT !.unlockedScenario = NumToStr(getCurrentUnlockedScenario.n + 1)]
    /\ reply' = NoReply
    /\ timerSave' = NoSave
    /\ UNCHANGED <<url, scenariosJson, backend, phase, location, allScenariosData,
                   assignmentQueue, assignmentContext, currentScenario, form,
                   internalNotes, readOnly, formStatus, draftSaveTimer, timers,
                   sinceEdit, burst, draftsInFlight, submit, nav, refreshPc, input,
                   output>>

(***************************************************************************)
(* The request contract of the assignment client                           *)
(***************************************************************************)
\* the remote operations sent through fetchAssignmentGet / fetchAssignmentPost
AssignmentOps == {"queue", "getAssignment", "saveDraft", "done"}

\* HTTP statuses of a response
HttpStatuses == {200, 204, 299, 301, 400, 404, 500, 503}

\* Response.ok
ResOk(status) == status >= 200 /\ status <= 299

\* JSON values of a property: undefined stands for an absent property
Undefined == [t |-> "undefined", v |-> 0]

JsNull == [t |-> "null", v |-> 0]

JsStr(s) == [t |-> "string", v |-> s]

JsNum(n) == [t |-> "number", v |-> n]

JsBool(b) == [t |-> "boolean", v |-> b]

ErrorValues ==
    {Undefined, JsNull, JsStr(""), JsStr("denied"), JsNum(0), JsNum(7),
     JsBool(FALSE), JsBool(TRUE)}

\* ToBoolean of a JSON value
Truthy(x) ==
    CASE x.t = "string" -> x.v # ""
      [] x.t = "number" -> x.v # 0
      [] x.t = "boolean" -> x.v
      [] OTHER -> FALSE

\* String(x) as the list of the pieces of the text
ToText(x) ==
    CASE x.t = "string" -> <<x.v>>
      [] x.t = "number" -> NumToStr(x.v)
      [] x.t = "boolean" -> IF x.v THEN <<"true">> ELSE <<"false">>
      [] x.t = "null" -> <<"null">>
      [] OTHER -> <<"undefined">>

\* bodies of a response: text that is no JSON, the JSON null, a JSON string,
\* a JSON object with or without a property error
ResponseBodies ==
    {[kind |-> k, error |-> Undefined] : k \in {"invalid", "null", "string"}}
        \cup {[kind |-> "object", error |-> e] : e \in ErrorValues}

\* what the network does to a request: it delivers a response, or fetch rejects
FetchOutcomes ==
    {[net |-> "response", status |-> st, body |-> b] : st \in HttpStatuses, b \in ResponseBodies}
        \cup {[net |-> "rejected"]}

\* res.json().catch(() => ({}))
ParsedJson(body) == IF body.kind = "invalid" THEN [kind |-> "object", error |-> Undefined] ELSE body

\* json && json.error
JsonError(json) == IF json.kind = "object" THEN json.error ELSE Undefined

Throw(message) == [failed |-> TRUE, message |-> message, json |-> [kind |-> "none"]]

Return(json) == [failed |-> FALSE, message |-> << >>, json |-> json]

\* as fetchAssignment, but the body is not looked at
fetchAssignmentStatusOnly(outcome) ==
    IF outcome.net = "rejected" THEN Throw(<<"TypeError">>)
    ELSE IF ~ResOk(outcome.status)
         THEN Throw(<<"Request failed (">> \o NumToStr(outcome.status) \o <<")">>)
         ELSE Return(ParsedJson(outcome.body))

\* fetchAssignmentGet and fetchAssignmentPost after the fetch: both treat the
\* outcome alike
fetchAssignment(outcome) ==
    IF outcome.net = "rejected" THEN Throw(<<"TypeError">>)
    ELSE LET json == ParsedJson(outcome.body)
         IN IF ~ResOk(outcome.status) \/ Truthy(JsonError(json))
            THEN Throw(IF Truthy(JsonError(json)) THEN ToText(JsonError(json))
                       ELSE <<"Request failed (">> \o NumToStr(outcome.status) \o <<")">>)
            ELSE Return(json)

RequestInputs == [fn : {"fetchAssignment"}, op : AssignmentOps, outcome : FetchOutcomes]

InitRequest == PageClosed /\ input \in RequestInputs

\* one assignment request runs to its end
AssignmentRequest ==
    /\ input.fn = "fetchAssignment"
    /\ output = NoOutput
    /\ output' = [fn |-> input.fn] @@ fetchAssignment(input.outcome)
    /\ reply' = NoReply
    /\ timerSave' = NoSave
    /\ UNCHANGED <<url, scenariosJson, backend, ls, phase, location, allScenariosData,
                   assignmentQueue, assignmentContext, currentScenario, form,
                   internalNotes, readOnly, formStatus, draftSaveTimer, timers,
                   sinceEdit, burst, draftsInFlight, submit, nav, refreshPc, input>>

(***************************************************************************)
(* Submissions to the sheet endpoint and the failed-submission list        *)
(***************************************************************************)
\* the payloads the console posts to GOOGLE_SCRIPT_URL: a selected agent
\* message (line 813), the end of a conversation (line 1818), the evaluation
\* form (line 2386)
SheetPayloads == {"agentMessage", "endConversation", "evaluation"}

\* localStorage failedSheetData: the payloads stored so far
FailedLists == SeqsUpTo(SheetPayloads, MaxFailed)

\* sendToGoogleSheetsWithTimer: the returned flag and the failedSheetData it
\* leaves.  A rejected fetch and a 2xx body that is no JSON (response.json()
\* throws) reach the catch, which stores the payload; a non-2xx response
\* returns false from the try
sendToGoogleSheetsWithTimer(payload, outcome, failedData) ==
    IF outcome.net = "rejected"
    THEN [returned |-> FALSE, failedSheetData |-> Append(failedData, payload)]
    ELSE IF ResOk(outcome.status)
         THEN IF outcome.body.kind = "invalid"
              THEN [returned |-> FALSE, failedSheetData |-> Append(failedData, payload)]
              ELSE [returned |-> TRUE, failedSheetData |-> failedData]
         ELSE [returned |-> FALSE, failedSheetData |-> failedData]

\* the evaluation POST of the submit handler (lines 2386-2447): a rejected
\* fetch reaches the outer catch; a response is a success if it is 2xx and its
\* body is no JSON or has the status 'success'; no branch touches
\* failedSheetData
submitEvaluation(payload, outcome, statusIsSuccess, failedData) ==
    IF outcome.net = "rejected"
    THEN [returned |-> FALSE, failedSheetData |-> failedData]
    ELSE [returned |-> /\ ResOk(outcome.status)
                       /\ \/ outcome.body.kind = "invalid"
                          \/ outcome.body.kind = "object" /\ statusIsSuccess,
          failedSheetData |-> failedData]

SheetInputs ==
    [fn : {"sheet"}, payload : SheetPayloads, outcome : FetchOutcomes,
     failedSheetData : FailedLists]

InitSheet == PageClosed /\ input \in SheetInputs

\* a selected agent message or the end of a conversation is submitted
SheetSubmission ==
    /\ input.fn = "sheet"
    /\ input.payload # "evaluation"
    /\ output = NoOutput
    /\ output' = [fn |-> input.fn]
                    @@ sendToGoogleSheetsWithTimer(input.payload, input.outcome,
                                                   input.failedSheetData)
    /\ reply' = NoReply
    /\ timerSave' = NoSave
    /\ UNCHANGED <<url, scenariosJson, backend, ls, phase, location, allScenariosData,
                   assignmentQueue, assignmentContext, currentScenario, form,
                   internalNotes, readOnly, formStatus, draftSaveTimer, timers,
                   sinceEdit, burst, draftsInFlight, submit, nav, refreshPc, input>>

\* the evaluation form is submitted
EvaluationSubmission ==
    /\ input.fn = "sheet"
    /\ input.payload = "evaluation"
    /\ output = NoOutput
    /\ \E statusIsSuccess \in BOOLEAN :
          output' = [fn |-> input.fn]
                       @@ submitEvaluation(input.payload, input.outcome, statusIsSuccess,
                                           input.failedSheetData)
    /\ reply' = NoReply
    /\ timerSave' = NoSave
    /\ UNCHANGED <<url, scenariosJson, backend, ls, phase, location, allScenariosData,
                   assignmentQueue, assignmentContext, currentScenario, form,
                   internalNotes, readOnly, formStatus, draftSaveTimer, timers,
                   sinceEdit, burst, draftsInFlight, submit, nav, refreshPc, input>>

(***************************************************************************)
(* Normalization of the scenarios document: messages                       *)
(*                                                                         *)
(* JSON values are records [t, v]: t is the type, v the value.  Strings    *)
(* are character sequences; an absent property is Undefined.  An object is *)
(* a record of the properties the normalizer reads or writes by name,      *)
(* with its other properties as entries, the sequence of their [k, v]      *)
(* pairs in key order (Object.entries).  A message's media, dateTime and   *)
(* id, which are carried over independently of role, type and content,     *)
(* are not among them.                                                     *)
(***************************************************************************)
UpperCase == <<"A", "B", "C", "D", "E", "F", "G", "H", "I", "J", "K", "L", "M",
               "N", "O", "P", "Q", "R", "S", "T", "U", "V", "W", "X", "Y", "Z">>

LowerCase == <<"a", "b", "c", "d", "e", "f", "g", "h", "i", "j", "k", "l", "m",
               "n", "o", "p", "q", "r", "s", "t", "u", "v", "w", "x", "y", "z">>

\* String.prototype.toLowerCase
toLowerCase(s) ==
    [i \in 1..Len(s) |->
        IF \E j \in 1..26 : UpperCase[j] = s[i]
        THEN LowerCase[CHOOSE j \in 1..26 : UpperCase[j] = s[i]]
        ELSE s[i]]

\* String.prototype.toUpperCase
toUpperCase(s) ==
    [i \in 1..Len(s) |->
        IF \E j \in 1..26 : LowerCase[j] = s[i]
        THEN UpperCase[CHOOSE j \in 1..26 : LowerCase[j] = s[i]]
        ELSE s[i]]

JsArr(a) == [t |-> "array", v |-> a]

JsObj(o) == [t |-> "object", v |-> o]

\* an object literal's nested object: a set of [k, v] pairs with distinct k
JsDict(d) == [t |-> "dict", v |-> d]

\* an object without any of the properties
EmptyObject ==
    [role |-> Undefined, message_type |-> Undefined, messageType |-> Undefined,
     content |-> Undefined, message_text |-> Undefined,
     conversation |-> Undefined, messages |-> Undefined,
     agentName |-> Undefined,
     companyName |-> Undefined, agentInitial |-> Undefined,
     notes |-> Undefined, guidelines |-> Undefined, rightPanel |-> Undefined,
     entries |-> << >>]

\* object[key] of a property among the entries
Prop(object, key) ==
    LET at == {i \in 1..Len(object.entries) : object.entries[i].k = key}
    IN IF at = {} THEN Undefined ELSE object.entries[CHOOSE i \in at : TRUE].v

\* object[key] = value on the entries: an existing key keeps its place, a new
\* one comes last
SetProp(entries, key, value) ==
    IF \E i \in 1..Len(entries) : entries[i].k = key
    THEN [i \in 1..Len(entries) |->
             IF entries[i].k = key THEN [k |-> key, v |-> value] ELSE entries[i]]
    ELSE Append(entries, [k |-> key, v |-> value])

RECURSIVE SpreadEntries(_, _)
\* { ...a, ...b } on the entries: the keys of a in their order with the values
\* b gives them, then the other keys of b
SpreadEntries(a, b) ==
    IF b = << >> THEN a ELSE SpreadEntries(SetProp(a, Head(b).k, Head(b).v), Tail(b))

\* ToBoolean of a value: objects and arrays are truthy, '' and 0 are not
IsTruthy(x) ==
    CASE x.t = "string" -> x.v # << >>
      [] x.t = "number" -> x.v # 0
      [] x.t = "boolean" -> x.v
      [] x.t \in {"array", "object", "dict", "map", "document"} -> TRUE
      [] OTHER -> FALSE

\* a || b
Or(a, b) == IF IsTruthy(a) THEN a ELSE b

\* String(x || '') of a string, null or absent property
StringOrEmpty(x) == IF x.t = "string" THEN x.v ELSE << >>

RoleCustomer == <<"c", "u", "s", "t", "o", "m", "e", "r">>
RoleAgent == <<"a", "g", "e", "n", "t">>
RoleSystem == <<"s", "y", "s", "t", "e", "m">>
TypeSubscriber == <<"s", "u", "b", "s", "c", "r", "i", "b", "e", "r">>
TypeUser == <<"u", "s", "e", "r">>
TypeTemplate == <<"t", "e", "m", "p", "l", "a", "t", "e">>
TypeEscalation == <<"e", "s", "c", "a", "l", "a", "t", "i", "o", "n">>

\* mapMessageTypeToRole (lines 413-419)
mapMessageTypeToRole(messageType) ==
    LET type == toLowerCase(Trim(messageType))
    IN IF type \in {TypeSubscriber, RoleCustomer, TypeUser} THEN RoleCustomer
       ELSE IF type = RoleAgent THEN RoleAgent
       ELSE IF type \in {RoleSystem, TypeTemplate, TypeEscalation} THEN RoleSystem
       ELSE << >>

\* the object normalizeConversationMessage builds
NormalizedMessage(role, content, messageType) ==
    JsObj([EmptyObject EXCEPT !.role = JsStr(role), !.content = JsStr(content),
                              !.messageType = IF messageType # << >> THEN JsStr(messageType)
                                              ELSE Undefined])

\* const messageType (line 455)
MessageTypeOf(m) == toLowerCase(Trim(StringOrEmpty(Or(m.message_type, m.messageType))))

\* const role (lines 456-458): the explicit role, else the role of the type
MessageRoleOf(m) ==
    LET explicitRole == toLowerCase(Trim(StringOrEmpty(m.role)))
        mappedRole == mapMessageTypeToRole(MessageTypeOf(m))
    IN IF explicitRole # << >> THEN explicitRole ELSE mappedRole

\* const content (lines 461-462)
MessageContentOf(m) ==
    LET contentRaw == IF m.content.t \notin {"undefined", "null"} THEN m.content
                      ELSE m.message_text
    IN StringOrEmpty(contentRaw)

\* const isEventSystemMessage (line 463)
IsEventSystemMessage(m) == MessageTypeOf(m) \in {TypeTemplate, TypeEscalation}

\* as normalizeConversationMessage, but every message without content is dropped
normalizeConversationMessageNoEvents(message) ==
    IF message.t # "object" THEN JsNull
    ELSE LET m == message.v
         IN IF MessageRoleOf(m) = << >> THEN JsNull
            ELSE IF Trim(MessageContentOf(m)) = << >> THEN JsNull
            ELSE NormalizedMessage(MessageRoleOf(m), MessageContentOf(m), MessageTypeOf(m))

\* normalizeConversationMessage (lines 452-484): null for what is no object,
\* has no role, or has blank content without being a template or escalation
normalizeConversationMessage(message) ==
    IF message.t # "object" THEN JsNull
    ELSE LET m == message.v
         IN IF MessageRoleOf(m) = << >> THEN JsNull
            ELSE IF Trim(MessageContentOf(m)) = << >> /\ ~IsEventSystemMessage(m) THEN JsNull
            ELSE NormalizedMessage(MessageRoleOf(m), MessageContentOf(m), MessageTypeOf(m))

\* isConversationMessageObject (lines 486-494)
isConversationMessageObject(item) ==
    /\ item.t = "object"
    /\ \/ item.v.message_text # Undefined
       \/ item.v.message_type # Undefined
       \/ item.v.content # Undefined
       \/ item.v.role # Undefined

\* list.map(normalizeConversationMessage).filter(Boolean) (lines 500-505)
normalizeConversationList(list) ==
    SelectSeq([i \in 1..Len(list) |-> normalizeConversationMessage(list[i])],
              LAMBDA x : x # JsNull)

\* raw messages: every combination of an explicit role, a type under either
\* property name, and a content under either property name
RawRoles == {Undefined, JsStr(<<"b", "o", "t">>), JsStr(<<" ", "A", "g", "e", "n", "t">>)}

RawTypes ==
    {[message_type |-> Undefined, messageType |-> Undefined],
     [message_type |-> JsStr(<<"a", "g", "e", "n", "t">>), messageType |-> Undefined],
     [message_type |-> JsStr(<<"T", "e", "m", "p", "l", "a", "t", "e">>), messageType |-> Undefined],
     [message_type |-> Undefined, messageType |-> JsStr(<<"e", "s", "c", "a", "l", "a", "t", "i", "o", "n">>)]}

RawContents ==
    {[content |-> Undefined, message_text |-> Undefined],
     [content |-> JsStr(<<" ">>), message_text |-> JsStr(<<"y", "o">>)],
     [content |-> JsStr(<<"h", "i">>), message_text |-> Undefined]}

RawMessages ==
    {JsObj([EmptyObject EXCEPT !.role = r,
                               !.message_type = ty.message_type,
                               !.messageType = ty.messageType,
                               !.content = c.content,
                               !.message_text = c.message_text]) :
        r \in RawRoles, ty \in RawTypes, c \in RawContents}

ConversationInputs == [fn : {"conversation"}, list : SeqsUpTo(RawMessages, MaxMessages)]

InitConversation == PageClosed /\ input \in ConversationInputs

\* one raw conversation is normalized
NormalizeConversation ==
    /\ input.fn = "conversation"
    /\ output = NoOutput
    /\ output' = [fn |-> input.fn, list |-> normalizeConversationList(input.list)]
    /\ reply' = NoReply
    /\ timerSave' = NoSave
    /\ UNCHANGED <<url, scenariosJson, backend, ls, phase, location, allScenariosData,
                   assignmentQueue, assignmentContext, currentScenario, form,
                   internalNotes, readOnly, formStatus, draftSaveTimer, timers,
                   sinceEdit, burst, draftsInFlight, submit, nav, refreshPc, input>>

(***************************************************************************)
(* Normalization of the scenarios document: scenario records               *)
(***************************************************************************)
\* getCompanyInitial (lines 408-411)
getCompanyInitial(companyName) ==
    LET name == Trim(StringOrEmpty(companyName))
    IN IF name # << >> THEN toUpperCase(<<name[1]>>) ELSE << >>

\* the pairs of a nested object, {} for what is none
DictOf(x) == IF x.t = "dict" THEN x.v ELSE {}

\* { ...a, ...b }
Spread(a, b) == b \cup {p \in a : \A q \in b : q.k # p.k}

\* the first message of role customer with content, NoMessage when none
FirstCustomerContent(conversation) ==
    LET found == {i \in 1..Len(conversation) :
                     /\ conversation[i].v.role = JsStr(RoleCustomer)
                     /\ IsTruthy(conversation[i].v.content)}
    IN IF found = {} THEN Undefined
       ELSE conversation[CHOOSE i \in found : \A j \in found : i <= j].v.content

CustomerMessageKey ==
    <<"c", "u", "s", "t", "o", "m", "e", "r", "M", "e", "s", "s", "a", "g", "e">>

SystemMessageStem == <<"s", "y", "s", "t", "e", "m", "m", "e", "s", "s", "a", "g", "e">>

AgentMessageStem == <<"a", "g", "e", "n", "t", "m", "e", "s", "s", "a", "g", "e">>

\* /^<stem>\d+$/i.test(key), with \d* when the digits may be missing
MatchesStem(key, stem, digitsMayMiss) ==
    LET lower == toLowerCase(key)
        n == Len(stem)
    IN /\ Len(key) >= n
       /\ SubSeq(lower, 1, n) = stem
       /\ \A i \in (n + 1)..Len(key) : IsDigit(key[i])
       /\ digitsMayMiss \/ Len(key) > n

\* the role of the message a legacy property gives, << >> for another key
LegacyRole(key) ==
    IF MatchesStem(key, SystemMessageStem, FALSE) THEN RoleSystem
    ELSE IF MatchesStem(key, toLowerCase(CustomerMessageKey), TRUE) THEN RoleCustomer
    ELSE IF MatchesStem(key, AgentMessageStem, FALSE) THEN RoleAgent
    ELSE << >>

RECURSIVE LegacyMessages(_)
\* the loop over Object.entries(scenario) (lines 593-604): one message for each
\* non-empty string under a legacy key, in key order
LegacyMessages(entries) ==
    IF entries = << >> THEN << >>
    ELSE LET key == Head(entries).k
             value == Head(entries).v
         IN (IF value.t = "string" /\ IsTruthy(value) /\ LegacyRole(key) # << >>
             THEN <<JsObj([EmptyObject EXCEPT !.role = JsStr(LegacyRole(key)),
                                              !.content = value])>>
             ELSE << >>) \o LegacyMessages(Tail(entries))

\* a buildConversationFromScenario that reads the legacy properties first
buildConversationLegacyFirst(scenario) ==
    IF LegacyMessages(scenario.entries) # << >>
    THEN normalizeConversationList(LegacyMessages(scenario.entries))
    ELSE IF scenario.conversation.t = "array" /\ scenario.conversation.v # << >>
    THEN normalizeConversationList(scenario.conversation.v)
    ELSE IF scenario.messages.t = "array" /\ scenario.messages.v # << >>
    THEN normalizeConversationList(scenario.messages.v)
    ELSE << >>

\* buildConversationFromScenario (lines 582-606) of a scenario object: its
\* conversation, else its messages, else the messages of its legacy properties
buildConversationFromScenario(scenario) ==
    IF scenario.conversation.t = "array" /\ scenario.conversation.v # << >>
    THEN normalizeConversationList(scenario.conversation.v)
    ELSE IF scenario.messages.t = "array" /\ scenario.messages.v # << >>
    THEN normalizeConversationList(scenario.messages.v)
    ELSE normalizeConversationList(LegacyMessages(scenario.entries))

ScenarioLabel == <<"S", "c", "e", "n", "a", "r", "i", "o", " ">>

\* normalizeScenarioRecord (lines 507-547)
normalizeScenarioRecord(rawScenario, defaults, scenarioKey) ==
    LET scenarioObject == IF rawScenario.t = "array"
                          THEN [EmptyObject EXCEPT !.conversation = rawScenario]
                          ELSE IF rawScenario.t = "object" THEN rawScenario.v
                          ELSE EmptyObject
        scenarioNotes == DictOf(Or(scenarioObject.notes, scenarioObject.guidelines))
        defaultNotes == DictOf(Or(defaults.notes, defaults.guidelines))
        spread == [f \in DOMAIN EmptyObject |->
                      IF f = "entries"
                      THEN SpreadEntries(defaults.entries, scenarioObject.entries)
                      ELSE IF scenarioObject[f] # Undefined THEN scenarioObject[f]
                      ELSE defaults[f]]
        merged == [spread EXCEPT
                      !.guidelines = JsDict(Spread(DictOf(defaults.guidelines),
                                                   DictOf(scenarioObject.guidelines))),
                      !.notes = JsDict(Spread(defaultNotes, scenarioNotes)),
                      !.rightPanel = JsDict(Spread(DictOf(defaults.rightPanel),
                                                   DictOf(scenarioObject.rightPanel)))]
        preloadedConversation ==
            IF scenarioObject.conversation.t = "array" THEN scenarioObject.conversation.v
            ELSE IF scenarioObject.messages.t = "array" THEN scenarioObject.messages.v
            ELSE << >>
        preloaded == IF preloadedConversation # << >>
                     THEN [merged EXCEPT !.conversation = JsArr(preloadedConversation)]
                     ELSE merged
        conversation == buildConversationFromScenario(preloaded)
        firstCustomer == FirstCustomerContent(conversation)
        companyName == IF IsTruthy(preloaded.companyName) THEN preloaded.companyName
                       ELSE JsStr(ScenarioLabel \o scenarioKey)
    IN [preloaded EXCEPT
           !.conversation = JsArr(conversation),
           !.entries = IF ~IsTruthy(Prop(preloaded, CustomerMessageKey))
                          /\ firstCustomer # Undefined
                       THEN SetProp(@, CustomerMessageKey, firstCustomer) ELSE @,
           !.agentName = IF IsTruthy(@) THEN @ ELSE JsStr(<< >>),
           !.companyName = companyName,
           !.agentInitial = JsStr(getCompanyInitial(companyName))]

\* an isMessageArray that takes no array for a conversation
isMessageArrayNever(value) == FALSE

\* isMessageArray (lines 496-498)
isMessageArray(value) ==
    /\ value.t = "array"
    /\ value.v # << >>
    /\ \A i \in 1..Len(value.v) : isConversationMessageObject(value.v[i])

\* a scenarios document: an array, or an object with the properties defaults
\* and scenarios; an object of scenarios is a set of [key, value] entries
JsDocument(defaults, scenarios) == [t |-> "document", defaults |-> defaults, scenarios |-> scenarios]

JsMap(entries) == [t |-> "map", v |-> entries]

\* Object.keys(x) with the values under them: the entries of an object, the
\* indices and characters of a string, nothing of a number or a boolean
KeyedValues(x) ==
    CASE x.t = "map" -> x.v
      [] x.t = "string" ->
            {[key |-> NumToStr(i - 1), value |-> JsStr(<<x.v[i]>>)] : i \in 1..Len(x.v)}
      [] OTHER -> {}

\* coerceScenariosPayloadToMap (lines 549-580) with the records it builds: the
\* map as the set of its [key, value] entries
coerceScenariosPayloadToRecords(data) ==
    LET defaults == IF data.t = "document" /\ data.defaults.t = "object"
                    THEN data.defaults.v ELSE EmptyObject
        asArray == IF data.t = "array" THEN data
                   ELSE IF data.t = "document" /\ data.scenarios.t = "array" THEN data.scenarios
                   ELSE JsNull
    IN IF data.t = "document" /\ IsTruthy(data.scenarios) /\ data.scenarios.t # "array"
       THEN {[key |-> e.key, value |-> normalizeScenarioRecord(e.value, defaults, e.key)] :
                e \in KeyedValues(data.scenarios)}
       ELSE IF asArray = JsNull THEN {}
       ELSE IF isMessageArray(asArray)
       THEN {[key |-> K("1"),
              value |-> normalizeScenarioRecord(
                            JsObj([EmptyObject EXCEPT !.conversation = asArray]),
                            defaults, K("1"))]}
       ELSE {[key |-> NumToStr(i),
              value |-> normalizeScenarioRecord(asArray.v[i], defaults, NumToStr(i))] :
                i \in 1..Len(asArray.v)}

\* the normalized map as the scenarios of a document
DocumentOf(map) == JsDocument(Undefined, JsMap({[key |-> e.key, value |-> JsObj(e.value)] : e \in map}))

\* messages of the scenarios of a document: an agent message without content,
\* a subscriber message, a template event without content
BlankAgentMessage ==
    JsObj([EmptyObject EXCEPT !.role = JsStr(RoleAgent), !.content = JsStr(<< >>)])

SubscriberMessage ==
    JsObj([EmptyObject EXCEPT !.message_type = JsStr(TypeSubscriber),
                              !.message_text = JsStr(<<"h", "i">>)])

TemplateEvent == JsObj([EmptyObject EXCEPT !.message_type = JsStr(TypeTemplate)])

ScenarioMessages == {BlankAgentMessage, SubscriberMessage, TemplateEvent}

MessageLists == SeqsUpTo(ScenarioMessages, MaxMessages)

Hello == JsStr(<<"h", "e", "l", "l", "o">>)

ToneX == JsDict({[k |-> "tone", v |-> "x"]})

ToneY == JsDict({[k |-> "tone", v |-> "y"]})

\* raw scenario objects
RawScenarios ==
    {JsObj([EmptyObject EXCEPT !.conversation = c, !.messages = ms,
                               !.entries = cm, !.companyName = cn,
                               !.notes = ng.notes, !.guidelines = ng.guidelines]) :
        c \in {Undefined} \cup {JsArr(l) : l \in MessageLists},
        ms \in {Undefined, JsArr(<<SubscriberMessage>>)},
        cm \in {<< >>, <<[k |-> CustomerMessageKey, v |-> Hello]>>},
        cn \in {Undefined, JsStr(<<" ">>), JsStr(<<"a", "c", "m", "e">>)},
        ng \in {[notes |-> Undefined, guidelines |-> Undefined],
                [notes |-> ToneX, guidelines |-> Undefined],
                [notes |-> Undefined, guidelines |-> ToneY]}}

\* the defaults of a document
RawDefaults ==
    {Undefined,
     JsObj([EmptyObject EXCEPT !.agentName = JsStr(<<"S", "a", "m">>), !.guidelines = ToneX])}

\* elements of a top-level array: messages, scenario objects, a scenario given
\* as its message array, null
ArrayElements ==
    ScenarioMessages
        \cup {JsObj(EmptyObject),
              JsObj([EmptyObject EXCEPT !.companyName = JsStr(<<"a", "c", "m", "e">>)]),
              JsArr(<<SubscriberMessage>>),
              JsNull}

\* JSON values that are neither an object nor an array
Scalars ==
    {JsNull, JsNum(0), JsNum(7), JsBool(FALSE), JsBool(TRUE), JsStr(<< >>),
     JsStr(<<"a", "b">>)}

\* documents: an object of one scenario, arrays of scenarios or of messages,
\* and the malformed ones: a scalar, an object without scenarios or with a
\* scalar for them
RawDocuments ==
    {JsDocument(d, JsMap({[key |-> k, value |-> r]})) :
        d \in RawDefaults, k \in {K("1"), K("7")}, r \in RawScenarios \cup {JsNull}}
      \cup {JsArr(<<r>>) : r \in RawScenarios}
      \cup {JsArr(a) : a \in SeqsUpTo(ArrayElements, MaxMessages)}
      \cup {JsDocument(d, JsArr(a)) : d \in RawDefaults, a \in SeqsUpTo(ArrayElements, MaxMessages)}
      \cup {JsNull, JsDocument(Undefined, Undefined)}
      \cup Scalars
      \cup {JsDocument(d, s) : d \in RawDefaults, s \in Scalars \cup {Undefined}}

DocumentInputs == [fn : {"document"}, data : RawDocuments]

InitDocument == PageClosed /\ input \in DocumentInputs

\* a scenarios document is normalized
NormalizeDocument ==
    /\ input.fn = "document"
    /\ output = NoOutput
    /\ output' = [fn |-> input.fn, pass |-> 1, first |-> {},
                  map |-> coerceScenariosPayloadToRecords(input.data)]
    /\ reply' = NoReply
    /\ timerSave' = NoSave
    /\ UNCHANGED <<url, scenariosJson, backend, ls, phase, location, allScenariosData,
                   assignmentQueue, assignmentContext, currentScenario, form,
                   internalNotes, readOnly, formStatus, draftSaveTimer, timers,
                   sinceEdit, burst, draftsInFlight, submit, nav, refreshPc, input>>

\* the normalized map is normalized as the scenarios of a document
NormalizeAgain ==
    /\ output.fn = "document"
    /\ output.pass = 1
    /\ output' = [fn |-> output.fn, pass |-> 2, first |-> output.map,
                  map |-> coerceScenariosPayloadToRecords(DocumentOf(output.map))]
    /\ reply' = NoReply
    /\ timerSave' = NoSave
    /\ UNCHANGED <<url, scenariosJson, backend, ls, phase, location, allScenariosData,
                   assignmentQueue, assignmentContext, currentScenario, form,
                   internalNotes, readOnly, formStatus, draftSaveTimer, timers,
                   sinceEdit, burst, draftsInFlight, submit, nav, refreshPc, input>>

(***************************************************************************)
(* Single scenario records: the source of the conversation                 *)
(***************************************************************************)
SystemMessage1Key ==
    <<"S", "y", "s", "t", "e", "m", "M", "e", "s", "s", "a", "g", "e", "1">>

LowerAgentMessage2Key ==
    <<"a", "g", "e", "n", "t", "m", "e", "s", "s", "a", "g", "e", "2">>

SystemMessageKey == <<"S", "y", "s", "t", "e", "m", "M", "e", "s", "s", "a", "g", "e">>

\* property names of a scenario: three legacy names, and SystemMessage, which
\* lacks the number
LegacyKeys == {CustomerMessageKey, SystemMessage1Key, LowerAgentMessage2Key, SystemMessageKey}

LegacyValues == {Hello, JsStr(<<" ">>), JsNull}

\* the entries of an object: properties in key order, no key twice
EntryLists ==
    {l \in SeqsUpTo([k : LegacyKeys, v : LegacyValues], MaxLegacy) :
        \A i, j \in 1..Len(l) : l[i].k = l[j].k => i = j}

\* raw scenario objects with legacy properties
LegacyScenarios ==
    {JsObj([EmptyObject EXCEPT !.conversation = c, !.messages = ms, !.entries = l]) :
        c \in {Undefined, JsArr(<< >>), JsArr(<<BlankAgentMessage>>), JsArr(<<SubscriberMessage>>)},
        ms \in {Undefined, JsArr(<< >>), JsArr(<<TemplateEvent>>)},
        l \in EntryLists}

\* the defaults of their document: none, a customerMessage, a conversation
LegacyDefaults ==
    {EmptyObject,
     [EmptyObject EXCEPT !.entries = <<[k |-> CustomerMessageKey, v |-> JsStr(<<"y", "o">>)]>>],
     [EmptyObject EXCEPT !.conversation = JsArr(<<TemplateEvent>>)]}

ScenarioInputs == [fn : {"scenario"}, rawScenario : LegacyScenarios, defaults : LegacyDefaults]

InitScenario == PageClosed /\ input \in ScenarioInputs

\* a raw scenario becomes the record of key "1"
NormalizeScenario ==
    /\ input.fn = "scenario"
    /\ output = NoOutput
    /\ output' = [fn |-> input.fn,
                  record |-> normalizeScenarioRecord(input.rawScenario, input.defaults, K("1"))]
    /\ reply' = NoReply
    /\ timerSave' = NoSave
    /\ UNCHANGED <<url, scenariosJson, backend, ls, phase, location, allScenariosData,
                   assignmentQueue, assignmentContext, currentScenario, form,
                   internalNotes, readOnly, formStatus, draftSaveTimer, timers,
                   sinceEdit, burst, draftsInFlight, submit, nav, refreshPc, input>>
(***************************************************************************)
(* The category cells of the evaluation payload                            *)
(***************************************************************************)
\* CATEGORY_LABELS (lines 2291-2306): the labels of each category in display order
CATEGORY_LABELS ==
    [issue_identification |-> <<"Intent Identified", "Necessary Reply">>,
     proper_resolution |-> <<"Efficient Troubleshooting", "Correct Escalation",
                             "Double Text", "Partial Reply">>,
     product_sales |-> <<"General Recommendation", "Discount Upsell",
                         "Restock Question", "Upsell">>,
     accuracy |-> <<"Credible Source", "Promo - Active", "Promo - Correct",
                    "Promo - Hallucinated", "Link - Broken", "Link - Correct Page",
                    "Link - Correct Region", "Link - Correct Website",
                    "Link - Filtered", "Link - Relevant Item">>,
     workflow |-> <<"Checkout Page", "Company Profile", "Conversation",
                    "Customer Profile", "Notes", "Product Information",
                    "Promo Notes", "Templates", "Website">>,
     clarity |-> <<"Correct Grammar", "No Typos", "No Repetition",
                   "Understandable Message">>,
     tone |-> <<"Preferred tone followed", "Personalized", "Empathetic">>]

\* VALUE_TO_LABEL (lines 2307-2322): the label of each checkbox value
VALUE_TO_LABEL ==
    [issue_identification |->
        [intent_identified |-> "Intent Identified", necessary_reply |-> "Necessary Reply"],
     proper_resolution |->
        [efficient_troubleshooting |-> "Efficient Troubleshooting",
         correct_escalation |-> "Correct Escalation",
         double_text |-> "Double Text", partial_reply |-> "Partial Reply"],
     product_sales |->
        [general_recommendation |-> "General Recommendation",
         discount_upsell |-> "Discount Upsell",
         restock_question |-> "Restock Question", upsell |-> "Upsell"],
     accuracy |->
        [credible_source |-> "Credible Source", promo_active |-> "Promo - Active",
         promo_correct |-> "Promo - Correct", promo_hallucinated |-> "Promo - Hallucinated",
         link_broken |-> "Link - Broken", link_correct_page |-> "Link - Correct Page",
         link_correct_region |-> "Link - Correct Region",
         link_correct_website |-> "Link - Correct Website",
         link_filtered |-> "Link - Filtered", link_relevant_item |-> "Link - Relevant Item"],
     workflow |->
        [checkout_page |-> "Checkout Page", company_profile |-> "Company Profile",
         conversation |-> "Conversation", customer_profile |-> "Customer Profile",
         notes |-> "Notes", product_information |-> "Product Information",
         promo_notes |-> "Promo Notes", templates |-> "Templates", website |-> "Website"],
     clarity |->
        [correct_grammar |-> "Correct Grammar", no_typos |-> "No Typos",
         no_repetition |-> "No Repetition",
         understandable_message |-> "Understandable Message"],
     tone |->
        [preferred_tone_followed |-> "Preferred tone followed",
         personalized |-> "Personalized", empathetic |-> "Empathetic"]]

\* checkboxCategories (line 2325)
checkboxCategories == DOMAIN CATEGORY_LABELS

\* Array.prototype.join(','): the pieces of the text, a "," between the items
RECURSIVE Join(_)
Join(items) ==
    IF Len(items) <= 1 THEN items
    ELSE <<Head(items), ",">> \o Join(Tail(items))

\* a buildCategoryCell that lists the labels as they were selected
buildCategoryCellSelectionOrder(categoryKey, selectedValues) ==
    LET valueMap == VALUE_TO_LABEL[categoryKey]
    IN Join([i \in 1..Len(SelectSeq(selectedValues, LAMBDA v : v \in DOMAIN valueMap)) |->
                valueMap[SelectSeq(selectedValues, LAMBDA v : v \in DOMAIN valueMap)[i]]])

\* buildCategoryCell (lines 2331-2338) for the values formData.getAll returned
buildCategoryCell(categoryKey, selectedValues) ==
    LET full == CATEGORY_LABELS[categoryKey]
        valueMap == VALUE_TO_LABEL[categoryKey]
        selected == {valueMap[v] : v \in Range(selectedValues) \cap DOMAIN valueMap}
        included == SelectSeq(full, LAMBDA label : label \in selected)
    IN Join(included)

\* the values a form can hold for a category: the category's checkbox values
\* and one value its table does not know
CategoryValues(categoryKey) == DOMAIN VALUE_TO_LABEL[categoryKey] \cup {"bogus"}

CellInputs ==
    UNION {[fn : {"cell"}, category : {c}, selected : SeqsUpTo(CategoryValues(c), MaxSelected)] :
              c \in checkboxCategories}

InitCell == PageClosed /\ input \in CellInputs

\* the cell of one category is built
BuildCategoryCell ==
    /\ input.fn = "cell"
    /\ output = NoOutput
    /\ output' = [fn |-> input.fn, cell |-> buildCategoryCell(input.category, input.selected)]
    /\ reply' = NoReply
    /\ timerSave' = NoSave
    /\ UNCHANGED <<url, scenariosJson, backend, ls, phase, location, allScenariosData,
                   assignmentQueue, assignmentContext, currentScenario, form,
                   internalNotes, readOnly, formStatus, draftSaveTimer, timers,
                   sinceEdit, burst, draftsInFlight, submit, nav, refreshPc, input>>

(***************************************************************************)
(* The label lists of a scenario: blocklisted_words, escalation_preferences*)
(*                                                                         *)
(* A list is a sequence of strings, a string a character sequence.  The    *)
(* editor (src/unnamed/part_000) stores the list, the console (src/app.js) *)
(* shows the list it finds in the scenarios file.  The editor's Unicode    *)
(* normalization (FormKC) leaves the characters of the model as they are.  *)
(***************************************************************************)
\* no list under a property name
NoList == <<"none">>

\* Convert-ToStringArray (lines 486-519) of an array of strings: trimmed, the
\* empty ones and the texts {} and [] left out
ConvertToStringArray(value) ==
    SelectSeq([i \in 1..Len(value) |-> Trim(value[i])],
              LAMBDA txt : txt # << >> /\ txt # <<"{", "}">> /\ txt # <<"[", "]">>)

RECURSIVE UniqueFrom(_, _)
\* the loop of Get-UniqueTrimmedStringArray: items whose lower-case key was
\* not seen are kept
UniqueFrom(items, seen) ==
    IF items = << >> THEN << >>
    ELSE LET txt == Trim(Head(items))
             key == toLowerCase(txt)
         IN IF txt = << >> \/ key \in seen THEN UniqueFrom(Tail(items), seen)
            ELSE <<txt>> \o UniqueFrom(Tail(items), seen \cup {key})

\* Get-UniqueTrimmedStringArray (lines 521-535)
GetUniqueTrimmedStringArray(value) == UniqueFrom(ConvertToStringArray(value), {})

\* Normalize-ScenarioRecordForStorage (lines 701-717) on one list: the property
\* in snake case, else the one in camel case, else nothing
NormalizeListForStorage(snake, camel) ==
    GetUniqueTrimmedStringArray(
        IF snake # NoList THEN snake ELSE IF camel # NoList THEN camel ELSE << >>)

IsQuote(c) == c \in {"'", "\""}

\* item.replace(/^['"]|['"]$/g, ''): one quote off each end
StripQuotes(item) ==
    LET front == IF item # << >> /\ IsQuote(Head(item)) THEN Tail(item) ELSE item
    IN IF front # << >> /\ IsQuote(front[Len(front)])
       THEN SubSeq(front, 1, Len(front) - 1) ELSE front

\* normalizeScenarioLabelList (lines 617-640) of an array of strings
normalizeScenarioLabelList(value) ==
    SelectSeq([i \in 1..Len(value) |-> StripQuotes(Trim(value[i]))],
              LAMBDA item : item # << >>)

\* the list the console shows (lines 1100-1108): the property in snake case
\* when it is there, else the one in camel case
ShownList(snake, camel) ==
    normalizeScenarioLabelList(
        IF snake # NoList THEN snake ELSE IF camel # NoList THEN camel ELSE << >>)

\* entries of a raw list
LabelStrings ==
    {<<"a">>, <<"A">>, <<" ", "a">>, <<"'", "a", "'">>, <<"b">>, <<" ">>, << >>}

LabelLists == SeqsUpTo(LabelStrings, MaxLabels)

LabelInputs ==
    [fn : {"labels"}, snake : LabelLists \cup {NoList}, camel : {NoList, <<<<"b">>, <<"B">>>>}]

InitLabels == PageClosed /\ input \in LabelInputs

\* the editor stores the scenario
StoreLabels ==
    /\ input.fn = "labels"
    /\ output = NoOutput
    /\ output' = [fn |-> input.fn, by |-> "editor", shown |-> FALSE,
                  list |-> NormalizeListForStorage(input.snake, input.camel)]
    /\ reply' = NoReply
    /\ timerSave' = NoSave
    /\ UNCHANGED <<url, scenariosJson, backend, ls, phase, location, allScenariosData,
                   assignmentQueue, assignmentContext, currentScenario, form,
                   internalNotes, readOnly, formStatus, draftSaveTimer, timers,
                   sinceEdit, burst, draftsInFlight, submit, nav, refreshPc, input>>

\* the console shows the scenario the editor stored
ShowStoredLabels ==
    /\ output.fn = "labels"
    /\ output.by = "editor"
    /\ ~output.shown
    /\ output' = [fn |-> output.fn, by |-> "console", shown |-> TRUE,
                  list |-> ShownList(output.list, NoList)]
    /\ reply' = NoReply
    /\ timerSave' = NoSave
    /\ UNCHANGED <<url, scenariosJson, backend, ls, phase, location, allScenariosData,
                   assignmentQueue, assignmentContext, currentScenario, form,
                   internalNotes, readOnly, formStatus, draftSaveTimer, timers,
                   sinceEdit, burst, draftsInFlight, submit, nav, refreshPc, input>>

\* the console shows the scenario of a scenarios file written by hand
ShowLabels ==
    /\ input.fn = "labels"
    /\ output = NoOutput
    /\ output' = [fn |-> input.fn, by |-> "console", shown |-> TRUE,
                  list |-> ShownList(input.snake, input.camel)]
    /\ reply' = NoReply
    /\ timerSave' = NoSave
    /\ UNCHANGED <<url, scenariosJson, backend, ls, phase, location, allScenariosData,
                   assignmentQueue, assignmentContext, currentScenario, form,
                   internalNotes, readOnly, formStatus, draftSaveTimer, timers,
                   sinceEdit, burst, draftsInFlight, submit, nav, refreshPc, input>>
(***************************************************************************)
(* The form's controls: collecting and applying a form state               *)
(*                                                                         *)
(* customForm.elements is a sequence of controls with kind (checkbox,      *)
(* text, textarea, select, button), name, id, value, checked and, for a    *)
(* select, its options.  A form state is an object: the set of its [k, v]  *)
(* pairs, no key twice.                                                    *)
(***************************************************************************)
\* `${el.name}::${el.value}`
CheckboxKey(el) == el.name \o <<":", ":">> \o el.value

\* el.name || el.id
ValueKey(el) == IF el.name # << >> THEN el.name ELSE el.id

\* the controls both functions handle otherwise than as a checkbox
HoldsValue(el) == el.kind \in {"select", "textarea", "text"}

\* String(x) of a string or a boolean
StringOf(x) ==
    CASE x.t = "string" -> x.v
      [] x.t = "boolean" -> IF x.v THEN <<"t", "r", "u", "e">> ELSE <<"f", "a", "l", "s", "e">>

\* el.value = x: a select takes the value of one of its options, and has none
\* selected, with the value '', for any other
SetValue(el, x) ==
    IF el.kind = "select" /\ StringOf(x) \notin el.options THEN [el EXCEPT !.value = << >>]
    ELSE [el EXCEPT !.value = StringOf(x)]

HasKey(state, key) == \E p \in state : p.k = key

Lookup(state, key) == (CHOOSE p \in state : p.k = key).v

\* an applyCustomFormState that checks every checkbox the state names
applyFormElementsChecked(elements, parsedState) ==
    [i \in 1..Len(elements) |->
        LET el == elements[i]
        IN IF el.kind = "checkbox"
           THEN IF HasKey(parsedState, CheckboxKey(el))
                THEN [el EXCEPT !.checked = TRUE] ELSE el
           ELSE IF HoldsValue(el)
           THEN IF HasKey(parsedState, ValueKey(el))
                THEN SetValue(el, Lookup(parsedState, ValueKey(el))) ELSE el
           ELSE el]

\* applyCustomFormState (lines 335-352) on the controls, for a state that is an
\* object
applyFormElements(elements, parsedState) ==
    [i \in 1..Len(elements) |->
        LET el == elements[i]
        IN IF el.kind = "checkbox"
           THEN IF HasKey(parsedState, CheckboxKey(el))
                THEN [el EXCEPT !.checked = IsTruthy(Lookup(parsedState, CheckboxKey(el)))]
                ELSE el
           ELSE IF HoldsValue(el)
           THEN IF HasKey(parsedState, ValueKey(el))
                THEN SetValue(el, Lookup(parsedState, ValueKey(el))) ELSE el
           ELSE el]

\* state[key] = value
Assign(state, key, value) == {p \in state : p.k # key} \cup {[k |-> key, v |-> value]}

RECURSIVE CollectFrom(_, _)
\* the loop of collectCustomFormState: controls without name and id are
\* skipped, a later control overwrites the key of an earlier one
CollectFrom(elements, state) ==
    IF elements = << >> THEN state
    ELSE LET el == Head(elements)
         IN CollectFrom(Tail(elements),
                IF el.name = << >> /\ el.id = << >> THEN state
                ELSE IF el.kind = "checkbox"
                THEN Assign(state, CheckboxKey(el), JsBool(el.checked))
                ELSE IF HoldsValue(el) THEN Assign(state, ValueKey(el), JsStr(el.value))
                ELSE state)

\* collectCustomFormState (lines 354-369) on the controls
collectFormElements(elements) == CollectFrom(elements, {})

Control(kind, name, id, value, checked) ==
    [kind |-> kind, name |-> name, id |-> id, value |-> value, checked |-> checked,
     options |-> IF kind = "select" THEN {<<"x">>, <<"y">>} ELSE {}]

On == <<"o", "n">>

\* controls: checkboxes of the group c, a checkbox with an id only and one
\* with neither name nor id, text fields named n by name or by id, a
\* textarea, a text field with neither, a select, the submit button
Controls ==
    {Control("checkbox", <<"c">>, << >>, On, TRUE),
     Control("checkbox", <<"c">>, << >>, On, FALSE),
     Control("checkbox", <<"c">>, << >>, <<"v">>, TRUE),
     Control("checkbox", << >>, <<"i">>, On, TRUE),
     Control("checkbox", << >>, << >>, On, FALSE),
     Control("text", <<"n">>, << >>, <<"x">>, FALSE),
     Control("text", <<"n">>, << >>, << >>, FALSE),
     Control("text", << >>, <<"n">>, <<"y">>, FALSE),
     Control("textarea", <<"t">>, << >>, <<"x">>, FALSE),
     Control("text", << >>, << >>, <<"x">>, FALSE),
     Control("select", <<"s">>, << >>, <<"x">>, FALSE),
     Control("button", <<"b">>, << >>, << >>, FALSE)}

Forms == SeqsUpTo(Controls, MaxControls)

\* keys of a form state: those of the controls, and q, which names none
StateKeys ==
    {<<"c", ":", ":", "o", "n">>, <<"c", ":", ":", "v">>, <<":", ":", "o", "n">>,
     <<"n">>, <<"t">>, <<"s">>, << >>, <<"q">>}

StateValues == {JsBool(TRUE), JsBool(FALSE), JsStr(<<"x">>), JsStr(<<"z">>)}

\* form states of at most one key, and none: the form's own state is used
NoState == {[k |-> << >>, v |-> Undefined]}

ParsedStates == {{}} \cup {{[k |-> key, v |-> value]} : key \in StateKeys, value \in StateValues}

FormInputs == [fn : {"form"}, elements : Forms, parsedState : ParsedStates \cup {NoState}]

InitFormState == PageClosed /\ input \in FormInputs

\* the state collected from the form is applied to it
CollectThenApply ==
    /\ input.fn = "form"
    /\ input.parsedState = NoState
    /\ output = NoOutput
    /\ output' = [fn |-> input.fn, op |-> "collectApply",
                  elements |-> applyFormElements(input.elements,
                                                 collectFormElements(input.elements)),
                  state |-> collectFormElements(input.elements)]
    /\ reply' = NoReply
    /\ timerSave' = NoSave
    /\ UNCHANGED <<url, scenariosJson, backend, ls, phase, location, allScenariosData,
                   assignmentQueue, assignmentContext, currentScenario, form,
                   internalNotes, readOnly, formStatus, draftSaveTimer, timers,
                   sinceEdit, burst, draftsInFlight, submit, nav, refreshPc, input>>

\* a state is applied to the form and the form's state collected
ApplyThenCollect ==
    /\ input.fn = "form"
    /\ input.parsedState # NoState
    /\ output = NoOutput
    /\ output' = [fn |-> input.fn, op |-> "applyCollect",
                  elements |-> applyFormElements(input.elements, input.parsedState),
                  state |-> collectFormElements(
                                applyFormElements(input.elements, input.parsedState))]
    /\ reply' = NoReply
    /\ timerSave' = NoSave
    /\ UNCHANGED <<url, scenariosJson, backend, ls, phase, location, allScenariosData,
                   assignmentQueue, assignmentContext, currentScenario, form,
                   internalNotes, readOnly, formStatus, draftSaveTimer, timers,
                   sinceEdit, burst, draftsInFlight, submit, nav, refreshPc, input>>
(***************************************************************************)
(* Properties                                                              *)
(***************************************************************************)

\* C1: a submit while the active assignment has role viewer or mode view is
\* rejected by the handler: whatever the form holds, the submit sends no
\* request (no evaluation POST, no saveDraft, no done) and the handler ends.
C1_ViewOnlySubmitSendsNothing ==
    (assignmentContext # NoCtx
        /\ (assignmentContext.role = "viewer" \/ assignmentContext.mode = "view"))
    => (submit.sent = << >> /\ submit.pc = "idle")

\* a view-mode page whose form holds valid notes has been submitted and rejected
C1_Witness ==
    /\ submit.outcome = "rejected"
    /\ formStatus = "View-only link cannot submit."
    /\ assignmentContext.mode = "view"
    /\ \E i \in 1..Len(form.notes) : form.notes[i] # " "

\* C2: a submit whose notes field is empty or holds only whitespace stops at
\* the validation: the step sends no request, leaves the form as it is and
\* leaves the stored drafts as they are.
C2_BlankNotesSubmitStops ==
    [][(submit' # submit /\ submit.pc = "idle"
            /\ \A i \in 1..Len(form.notes) : form.notes[i] = " ")
        => (submit'.sent = << >> /\ submit'.pc = "idle" /\ form' = form /\ ls' = ls)]_vars

\* a whitespace-only notes field was submitted on an editable page and the
\* draft saved before is still stored
C2_Witness ==
    /\ submit.outcome = "invalid"
    /\ formStatus = "Notes field is required."
    /\ form.notes = <<" ">>
    /\ StoredFormState(ls, assignmentContext) = Raw(form)

\* C3: on an open editor page at most one debounce timer is pending; while
\* edits follow each other within the debounce delay no timer-driven saveDraft
\* goes out, the pending timer being the one set by the last edit; once the
\* delay has passed since the last edit exactly one saveDraft has gone out for
\* the burst; and that request carries the form state and the note of the
\* moment the timer fires.
C3_OneDraftSavePerBurst ==
    /\ [](/\ Cardinality(timers) <= 1
          /\ burst <= 1
          /\ (phase = "ready" /\ sinceEdit < DebounceMs)
                => /\ burst = 0
                   /\ timers = {[id |-> draftSaveTimer, left |-> DebounceMs - sinceEdit]}
          /\ (phase = "ready" /\ draftSaveTimer # 0 /\ sinceEdit = DebounceMs
                  /\ \A t \in timers : t.left # 0)
                => (burst = 1 /\ timers = {}))
    /\ [][burst' = burst + 1
            => /\ timerSave'.assignment_id = assignmentContext.assignment_id
               /\ timerSave'.token = assignmentContext.token
               /\ timerSave'.form_state_json =
                      [kind |-> "json", cb |-> form.cb, notes |-> form.notes]
               /\ timerSave'.internal_note = internalNotes]_vars

\* after edits of the checkboxes, the notes and the internal note the one
\* saveDraft of the burst is on its way with all of them
C3_Witness ==
    /\ burst = 1
    /\ timers = {}
    /\ draftsInFlight = 1
    /\ timerSave.form_state_json = Raw([cb |-> FALSE, notes |-> <<"x">>])
    /\ timerSave.internal_note = "n"
    /\ assignmentContext.form_state_json = NoRaw

\* C4: when navigateAssignmentQueue works on a non-empty queue of length n
\* with direction d, it selects index (i + d + n) mod n if the current
\* assignment is at index i, and index 0 (forward) or n - 1 (backward) if the
\* current assignment is not in the queue; a selected item with an edit URL is
\* where the page goes.
C4_QueueTargetWraps ==
    [][(nav' # nav /\ nav.pc \in {"idle", "queue"} /\ nav'.pc # "queue")
        => LET q == IF nav.pc = "idle" THEN assignmentQueue
                    ELSE IF reply'.ok /\ reply'.isArray THEN reply'.assignments
                    ELSE << >>
               n == Len(q)
               d == nav'.dir
               found == {i \in 0..(n - 1) :
                            q[i + 1].assignment_id = assignmentContext.assignment_id}
               first == CHOOSE k \in found : \A j \in found : k <= j
               expected == IF found # {} THEN (first + d + n) % n
                           ELSE IF d = 1 THEN 0 ELSE n - 1
           IN n > 0 => /\ nav'.index = expected
                       /\ q[expected + 1].edit_url # EmptyUrl
                             => location' = q[expected + 1].edit_url]_vars

\* forward from the last of three queue items has selected the first
C4_Witness ==
    /\ phase = "left"
    /\ nav.outcome = "assignment"
    /\ nav.dir = 1
    /\ nav.index = 0
    /\ Len(assignmentQueue) = 3
    /\ assignmentQueue[3].assignment_id = assignmentContext.assignment_id
    /\ location = assignmentQueue[1].edit_url

\* C5 as stated: a next/previous action that finds the in-memory queue empty,
\* or whose selected item has no edit URL, goes on to the scenario list and
\* makes no page transition to an assignment URL.
C5_EmptyInMemoryQueueUsesScenarioList ==
    [][(nav' # nav /\ nav.pc \in {"idle", "queue"} /\ nav'.pc # "queue")
        => LET q == IF nav.pc = "idle" THEN assignmentQueue
                    ELSE IF reply'.ok /\ reply'.isArray THEN reply'.assignments
                    ELSE << >>
           IN (nav'.startEmpty \/ (q # << >> /\ q[nav'.index + 1].edit_url = EmptyUrl))
                 => (nav'.pc = "scen" /\ phase' = phase /\ location' = location)]_vars

\* C5 amended: a next/previous action works on the in-memory queue if that is
\* non-empty and otherwise on the queue it fetches (empty if the fetch fails);
\* when the queue it works on is empty, or the selected item has no edit URL,
\* it goes on to the scenario list and makes no page transition to an
\* assignment URL.
C5_EmptyUsedQueueUsesScenarioList ==
    [][(nav' # nav /\ nav.pc \in {"idle", "queue"} /\ nav'.pc # "queue")
        => LET q == IF nav.pc = "idle" THEN assignmentQueue
                    ELSE IF reply'.ok /\ reply'.isArray THEN reply'.assignments
                    ELSE << >>
           IN (q = << >> \/ q[nav'.index + 1].edit_url = EmptyUrl)
                 => (nav'.pc = "scen" /\ phase' = phase /\ location' = location)]_vars

\* the queue was empty, was fetched, and the item selected from it has no edit
\* URL: the action has moved on to the scenario list
C5_Witness ==
    /\ nav.pc = "scen"
    /\ nav.startEmpty
    /\ nav.index >= 0
    /\ assignmentQueue[nav.index + 1].edit_url = EmptyUrl
    /\ phase = "ready"

\* C6 as stated: outside assignment mode the scenario shown to a non-admin
\* user is the unlocked one.
C6_OnlyUnlockedScenarioShown ==
    (phase = "ready" /\ url.aid = "" /\ ~isAdminUser /\ currentScenario # NoKey)
    => LET shown == parseInt(currentScenario)
           unlocked == getCurrentUnlockedScenario
       IN ~shown.nan /\ ~unlocked.nan /\ shown.n = unlocked.n

\* C7: when navigateScenarioList selects a scenario that is not the unlocked
\* one and the user is not the admin, the step changes neither the stored
\* current scenario number, nor the unlocked counter, nor the page URL, and the
\* page is not left.
C7_LockedTargetIsNoOp ==
    [][(nav.pc = "scen" /\ nav'.pc = "idle" /\ nav'.outcome \notin {"nodata", "nokeys"})
        => LET keys == NumericScenarioKeys(coerceScenariosPayloadToMap(scenariosJson))
               target == At(keys, ScenarioTargetIndex(keys, getCurrentScenarioNumber, nav.dir))
               unlocked == IF ls.unlockedScenario = NoKey THEN Num(1)
                           ELSE parseInt(ls.unlockedScenario)
           IN (ls.agentName # "admin" /\ parseInt(target) # unlocked)
                 => /\ nav'.outcome = "dropped"
                    /\ ls' = ls
                    /\ location' = location
                    /\ url' = url
                    /\ phase' = phase]_vars

\* a non-admin user's next/previous request was dropped
C7_Witness ==
    /\ nav.outcome = "dropped"
    /\ nav.pc = "idle"
    /\ phase = "ready"
    /\ ~isAdminUser

\* C8 as stated: navigateScenarioList takes the keys in ascending numeric
\* order, selects by the wrap-around rule, and the scenario it selects is a key
\* of the loaded scenario map.
C8_ScenarioTargetIsKeyOfMap ==
    [][(nav.pc = "scen" /\ nav'.pc = "idle" /\ nav'.outcome = "scenario")
        => LET data == coerceScenariosPayloadToMap(scenariosJson)
               keys == NumericScenarioKeys(data)
               n == Len(keys)
               found == {i \in 0..(n - 1) : keys[i + 1] = getCurrentScenarioNumber}
               first == CHOOSE k \in found : \A j \in found : k <= j
               expected == IF found # {} THEN (first + nav.dir + n) % n
                           ELSE IF nav.dir = 1 THEN 0 ELSE n - 1
           IN /\ \A a, b \in 1..n : a < b => parseInt(keys[a]).n <= parseInt(keys[b]).n
              /\ location'.scenario = keys[expected + 1]
              /\ \E e \in Range(data) : e.key = location'.scenario]_vars

\* C9 as stated: once done has been sent after a successful evaluation POST of
\* an editor assignment, the requests went out as evaluation, saveDraft, done,
\* and the handler ends either on the first returned assignment's edit URL
\* (returned queue non-empty, URL present) or with the form reset, every
\* checkbox checked, and the assignment's local draft removed.
C9_DoneEndsInNavigationOrReset ==
    [][(submit.pc = "done" /\ submit'.pc = "idle")
        => /\ submit.evalOk
           /\ submit.sent = <<"evaluation", "saveDraft", "done">>
           /\ LET q == IF reply'.ok /\ reply'.isArray THEN reply'.assignments ELSE << >>
              IN IF q # << >> /\ q[1].edit_url # EmptyUrl
                 THEN phase' = "left" /\ location' = q[1].edit_url /\ form' = form
                 ELSE /\ phase' = "ready"
                      /\ form' = [cb |-> TRUE, notes |-> << >>]
                      /\ ls'.formDraft[assignmentContext.assignment_id] = NoRaw]_vars

\* C10: right after a successful queue or done response the in-memory queue
\* is the list the response carried, the empty list when it carried no array.
C10_QueueIsLastResponse ==
    (reply.op \in {"queue", "done"} /\ reply.ok)
    => assignmentQueue = (IF reply.isArray THEN reply.assignments ELSE << >>)

\* done has answered with a list whose first item has no edit URL: the page
\* stays, the queue is that list
C10_Witness ==
    /\ reply.op = "done"
    /\ reply.ok
    /\ reply.assignments # << >>
    /\ assignmentQueue = reply.assignments
    /\ phase = "ready"

\* C11 as stated: an assignment request fails if and only if its response has
\* a non-2xx status or a body with a truthy error field; the failure carries
\* the server's error text when the body has one and 'Request failed
\* (<status>)' otherwise.
C11_FailsIffBadStatusOrError ==
    (input.fn = "fetchAssignment" /\ output # NoOutput)
    => LET o == input.outcome
           hasResponse == o.net = "response"
           error == IF hasResponse /\ o.body.kind = "object" THEN o.body.error
                    ELSE Undefined
       IN /\ output.failed <=> (hasResponse /\ (~ResOk(o.status) \/ Truthy(error)))
          /\ output.failed
                => output.message =
                      (IF Truthy(error) THEN ToText(error)
                       ELSE <<"Request failed (">> \o NumToStr(o.status) \o <<")">>)

\* C11 amended: an assignment request whose fetch delivers a response fails if
\* and only if the status is non-2xx or the body has a truthy error field; the
\* failure then carries the server's error text when the body has one and
\* 'Request failed (<status>)' otherwise; a 2xx response without a truthy error
\* never fails, a body that is no JSON included, and returns the parsed body.
\* A request whose fetch is rejected fails as well.
C11_ResponseFailsIffBadStatusOrError ==
    (input.fn = "fetchAssignment" /\ output # NoOutput)
    => LET o == input.outcome
       IN IF o.net = "rejected" THEN output.failed
          ELSE LET error == IF o.body.kind = "object" THEN o.body.error ELSE Undefined
               IN /\ output.failed <=> (~ResOk(o.status) \/ Truthy(error))
                  /\ output.failed
                        => output.message =
                              (IF Truthy(error) THEN ToText(error)
                               ELSE <<"Request failed (">> \o NumToStr(o.status) \o <<")">>)
                  /\ (ResOk(o.status) /\ o.body.kind = "invalid")
                        => (~output.failed /\ output.json.kind = "object")

\* a 2xx response whose body carries an error text has failed with that text
C11_Witness ==
    /\ input.fn = "fetchAssignment"
    /\ input.op = "saveDraft"
    /\ input.outcome.net = "response"
    /\ input.outcome.status = 200
    /\ output # NoOutput
    /\ output.failed
    /\ output.message = <<"denied">>

\* queue requests that await their response: of page initialisation, of the
\* refresh button, of a next/previous action
QueueRequestsPending ==
    (IF phase = "initQueue" THEN 1 ELSE 0)
        + (IF refreshPc = "wait" THEN 1 ELSE 0)
        + (IF nav.pc = "queue" THEN 1 ELSE 0)

\* C12: a step that receives a failed queue response, whoever asked, leaves
\* the in-memory queue and the assignment context as they are; a step that
\* receives a queue response ends that request and sends no queue request
\* again; and a submission sends each of its operations at most once.
C12_FailedRefreshKeepsState ==
    /\ [][(reply'.op = "queue" /\ ~reply'.ok)
            => /\ assignmentQueue' = assignmentQueue
               /\ assignmentContext' = assignmentContext]_vars
    /\ [][reply'.op = "queue"
            => QueueRequestsPending' = QueueRequestsPending - 1]_vars
    /\ [](\A i, j \in 1..Len(submit.sent) : submit.sent[i] = submit.sent[j] => i = j)

\* on an open assignment with a loaded queue a queue request has failed: the
\* queue and the context are still there and no request is outstanding
C12_Witness ==
    /\ reply.op = "queue"
    /\ ~reply.ok
    /\ phase = "ready"
    /\ assignmentQueue # << >>
    /\ assignmentContext # NoCtx
    /\ QueueRequestsPending = 0

\* C13: in the step that sends a saveDraft request, from the debounce timer or
\* from a submission, localStorage already holds the form state and the note
\* the request carries; and the step that receives the failure of a saveDraft
\* request leaves localStorage as it is.
C13_DraftStoredBeforeRequest ==
    /\ [][timerSave' # NoSave
            => /\ ls'.formDraft[timerSave'.assignment_id] = timerSave'.form_state_json
               /\ ls'.noteDraft[timerSave'.assignment_id] = timerSave'.internal_note]_vars
    /\ [][(submit.pc = "eval" /\ submit'.pc = "draft")
            => /\ ls'.formDraft[assignmentContext.assignment_id]
                     = [kind |-> "json", cb |-> form.cb, notes |-> form.notes]
               /\ ls'.noteDraft[assignmentContext.assignment_id] = internalNotes]_vars
    /\ [][(reply'.op = "saveDraft" /\ ~reply'.ok) => ls' = ls]_vars

\* the timer's saveDraft of a cleared form and a typed note has failed: the
\* cleared form's state and the note are still stored
C13_Witness ==
    /\ reply.op = "saveDraft"
    /\ ~reply.ok
    /\ assignmentContext # NoCtx
    /\ draftsInFlight = 0
    /\ burst = 1
    /\ ls.formDraft[assignmentContext.assignment_id] = Raw(ResetForm)
    /\ ls.noteDraft[assignmentContext.assignment_id] = "n"

\* C14 as stated: a submission whose payload does not reach the endpoint (the
\* fetch is rejected or the response is non-2xx), whichever payload it is,
\* leaves the failed-submission list one entry longer, the new last entry being
\* that payload.
C14_FailedSubmissionIsQueued ==
    (input.fn = "sheet" /\ output # NoOutput
        /\ (input.outcome.net = "rejected" \/ ~ResOk(input.outcome.status)))
    => output.failedSheetData = Append(input.failedSheetData, input.payload)

\* C17: normalizing a conversation keeps, in their order, exactly the messages
\* that have a role and whose content is non-blank or whose type is template
\* or escalation: a message with a role is dropped if and only if its content
\* is blank and its type is neither; so every message of the result has
\* non-blank content or is a template/escalation event.
C17_BlankDroppedUnlessEvent ==
    (input.fn = "conversation" /\ output # NoOutput)
    => LET kept == SelectSeq(input.list,
                       LAMBDA x : /\ MessageRoleOf(x.v) # << >>
                                  /\ \/ \E i \in 1..Len(MessageContentOf(x.v)) :
                                            MessageContentOf(x.v)[i] # " "
                                     \/ MessageTypeOf(x.v) \in {TypeTemplate, TypeEscalation})
       IN /\ Len(output.list) = Len(kept)
          /\ \A i \in 1..Len(kept) :
                /\ output.list[i].v.content = JsStr(MessageContentOf(kept[i].v))
                /\ output.list[i].v.role = JsStr(MessageRoleOf(kept[i].v))
          /\ \A i \in 1..Len(output.list) :
                \/ \E j \in 1..Len(output.list[i].v.content.v) :
                       output.list[i].v.content.v[j] # " "
                \/ output.list[i].v.messageType \in {JsStr(TypeTemplate), JsStr(TypeEscalation)}

\* of a blank agent message followed by a blank template message only the
\* template message is left
C17_Witness ==
    /\ input.fn = "conversation"
    /\ Len(input.list) = 2
    /\ input.list[1].v.role = JsStr(<<" ", "A", "g", "e", "n", "t">>)
    /\ input.list[1].v.message_type = Undefined
    /\ input.list[1].v.messageType = Undefined
    /\ input.list[1].v.content = JsStr(<<" ">>)
    /\ input.list[2].v.role = Undefined
    /\ input.list[2].v.message_type = JsStr(<<"T", "e", "m", "p", "l", "a", "t", "e">>)
    /\ input.list[2].v.content = Undefined
    /\ input.list[2].v.message_text = Undefined
    /\ output # NoOutput
    /\ Len(output.list) = 1
    /\ output.list[1].v.role = JsStr(RoleSystem)
    /\ output.list[1].v.messageType = JsStr(TypeTemplate)

\* C19 as stated: every message of a normalized conversation has the role
\* customer, agent or system.
C19_RolesAreCustomerAgentSystem ==
    (input.fn = "conversation" /\ output # NoOutput)
    => \A i \in 1..Len(output.list) :
          output.list[i].v.role \in {JsStr(RoleCustomer), JsStr(RoleAgent), JsStr(RoleSystem)}

\* C15 as stated: normalizing the normalized scenario map again, as the
\* scenarios of a document, gives a map with the same keys and equal records.
C15_NormalizeIsIdempotent ==
    (output.fn = "document" /\ output.pass = 2) => output.map = output.first

\* C16: a document whose top-level array, bare or under scenarios, is
\* non-empty and has only elements owning one of message_text, message_type,
\* content, role, is normalized to a map with the single key "1" whose
\* conversation is the normalization of the whole array.
C16_MessageArrayIsOneScenario ==
    (output.fn = "document" /\ output.pass = 1)
    => LET array == IF input.data.t = "array" THEN input.data.v
                    ELSE IF input.data.t = "document" /\ input.data.scenarios.t = "array"
                    THEN input.data.scenarios.v
                    ELSE << >>
           messageLike(x) == /\ x.t = "object"
                             /\ \E f \in {"message_text", "message_type", "content", "role"} :
                                    x.v[f] # Undefined
       IN (array # << >> /\ \A i \in 1..Len(array) : messageLike(array[i]))
             => /\ {e.key : e \in output.map} = {<<"1">>}
                /\ \A e \in output.map :
                      e.value.conversation = JsArr(normalizeConversationList(array))

\* an array of a subscriber message and a template event has become the one
\* scenario "1" with both messages
C16_Witness ==
    /\ output.fn = "document"
    /\ output.pass = 1
    /\ input.data = JsArr(<<SubscriberMessage, TemplateEvent>>)
    /\ Cardinality(output.map) = 1
    /\ \A e \in output.map : e.key = <<"1">> /\ Len(e.value.conversation.v) = 2

\* C20 as stated: every scenario record the normalizer produces has a
\* non-empty companyName and an agentInitial of exactly one character.
C20_CompanyNameAndInitial ==
    (output.fn = "document" /\ output.pass = 1)
    => \A e \in output.map :
          /\ e.value.companyName.t = "string"
          /\ e.value.companyName.v # << >>
          /\ e.value.agentInitial.t = "string"
          /\ Len(e.value.agentInitial.v) = 1

\* C18: the cell of a category lists the labels of the selected values the
\* category's table knows, each once, in the category's display order, with a
\* comma between two labels, whatever the order and the multiplicity of the
\* selection; values the table does not know contribute nothing.
C18_CellInDisplayOrder ==
    (input.fn = "cell" /\ output # NoOutput)
    => LET table == VALUE_TO_LABEL[input.category]
           order == CATEGORY_LABELS[input.category]
           labels == {table[v] : v \in Range(input.selected) \cap DOMAIN table}
           n == Cardinality(labels)
           cell == output.cell
           position(label) == CHOOSE i \in 1..Len(order) : order[i] = label
       IN /\ Len(cell) = IF n = 0 THEN 0 ELSE 2 * n - 1
          /\ {cell[2 * i - 1] : i \in 1..n} = labels
          /\ \A i \in 1..(n - 1) :
                /\ cell[2 * i] = ","
                /\ position(cell[2 * i - 1]) < position(cell[2 * i + 1])

\* upsell, an unknown value and general_recommendation selected in that order
\* in product_sales give "General Recommendation,Upsell"
C18_Witness ==
    /\ input.fn = "cell"
    /\ input.category = "product_sales"
    /\ input.selected = <<"upsell", "bogus", "general_recommendation">>
    /\ output # NoOutput
    /\ output.cell = <<"General Recommendation", ",", "Upsell">>

\* the role the message of a property name of LegacyKeys has: names are matched
\* without regard to case, and SystemMessage without a number is no legacy name
ExpectedLegacyRole(key) ==
    CASE key = SystemMessage1Key -> RoleSystem
      [] key = CustomerMessageKey -> RoleCustomer
      [] key = LowerAgentMessage2Key -> RoleAgent
      [] OTHER -> << >>

C22_MalformedGivesEmptyMap ==
    (output.fn = "document" /\ output.pass = 1)
    => LET data == input.data
           scalar(x) == x.t \in {"null", "number", "string", "boolean"}
       IN (scalar(data)
             \/ (data.t = "document" /\ (data.scenarios = Undefined \/ scalar(data.scenarios))))
          => output.map = {}

\* C23 as stated: a label list the editor has stored, and a label list the
\* console shows, has no two entries that are equal without regard to case.
C23_LabelListsHaveNoDuplicates ==
    output.fn = "labels"
    => \A i, j \in 1..Len(output.list) :
          toLowerCase(output.list[i]) = toLowerCase(output.list[j]) => i = j

\* the key under which a control is read and written
KeyOf(el) == IF el.kind = "checkbox" THEN CheckboxKey(el) ELSE ValueKey(el)

IsControl(el) == el.kind = "checkbox" \/ HoldsValue(el)

\* no two controls of the form have the same key
DistinctKeys(elements) ==
    \A i, j \in 1..Len(elements) :
        (IsControl(elements[i]) /\ IsControl(elements[j])
            /\ KeyOf(elements[i]) = KeyOf(elements[j])) => i = j

\* the value is one the control holds as it is: a boolean for a checkbox, a
\* string for a text field, the value of an option for a select
Holds(el, x) ==
    IF el.kind = "checkbox" THEN x.t = "boolean"
    ELSE /\ x.t = "string"
         /\ el.kind = "select" => x.v \in el.options

\* C24 as stated: applying the collected state leaves every form unchanged,
\* and collecting after applying a state returns the state's value for every
\* key of the state that names a control of the form.
C24_CollectAndApplyAreInverse ==
    /\ (output.fn = "form" /\ output.op = "collectApply")
          => output.elements = input.elements
    /\ (output.fn = "form" /\ output.op = "applyCollect")
          => \A p \in input.parsedState :
                (\E i \in 1..Len(input.elements) :
                    IsControl(input.elements[i]) /\ KeyOf(input.elements[i]) = p.k)
                => [k |-> p.k, v |-> p.v] \in output.state

\* C24: applying the collected state leaves a form unchanged when its controls
\* have pairwise different keys; collecting after applying a state returns the
\* state's value for every key that names a control with a name or an id,
\* when the value is one the control holds (a boolean for a checkbox, a
\* string for a text field, an option's value for a select).
C24_InverseOnDistinctKeys ==
    /\ (output.fn = "form" /\ output.op = "collectApply" /\ DistinctKeys(input.elements))
          => output.elements = input.elements
    /\ (output.fn = "form" /\ output.op = "applyCollect")
          => \A p \in input.parsedState :
                (\E i \in 1..Len(input.elements) :
                    LET el == input.elements[i]
                    IN /\ IsControl(el)
                       /\ KeyOf(el) = p.k
                       /\ el.name # << >> \/ el.id # << >>
                       /\ Holds(el, p.v))
                => [k |-> p.k, v |-> p.v] \in output.state

\* the state {c::on: false} was applied to a form with the checked checkbox
\* c/on and a text field, and false is collected under c::on
C24_Witness ==
    /\ output.fn = "form"
    /\ output.op = "applyCollect"
    /\ input.parsedState = {[k |-> <<"c", ":", ":", "o", "n">>, v |-> JsBool(FALSE)]}
    /\ input.elements = <<Control("checkbox", <<"c">>, << >>, On, TRUE),
                          Control("text", <<"n">>, << >>, <<"x">>, FALSE)>>
    /\ output.elements[1].checked = FALSE
    /\ [k |-> <<"c", ":", ":", "o", "n">>, v |-> JsBool(FALSE)] \in output.state

\* C25 as stated: an assignment context has the role editor or viewer and the
\* mode edit or view; its mode is view when the URL's mode parameter is view,
\* and the context made from a getAssignment response has the role editor
\* only when the role of the assignment in the response is editor.
C25_EditorOnlyForServerEditor ==
    /\ assignmentContext # NoCtx
          => /\ assignmentContext.role \in {"editor", "viewer"}
             /\ assignmentContext.mode \in {"edit", "view"}
             /\ url.mode = "view" => assignmentContext.mode = "view"
    /\ (reply.op = "getAssignment" /\ assignmentContext # NoCtx
            /\ assignmentContext.role = "editor")
          => reply.assignments[1].role = "editor"

\* C26 as stated: when page initialisation has opened an assignment, the
\* form's checkbox has the checked value the assignment's form_state_json
\* records; when the server has no draft it has the value the local snapshot
\* of the assignment records, if there is one.
C26_FormShowsServerDraft ==
    (reply.op = "getAssignment" /\ phase = "ready" /\ assignmentContext # NoCtx)
    => LET server == assignmentContext.form_state_json
           local == ls.formDraft[assignmentContext.assignment_id]
       IN /\ server.kind # "none" => form.cb = server.cb
          /\ (server.kind = "none" /\ local.kind # "none") => form.cb = local.cb

\* C27 as stated: the debounce timer sends no saveDraft request once the done
\* request of a submit has been issued, whether the done response is awaited,
\* has failed or has given no assignment to navigate to.
C27_NoDraftSaveAfterDone ==
    timerSave # NoSave => \A i \in 1..Len(submit.sent) : submit.sent[i] # "done"

\* the active assignment is read-only
ReadOnlyAssignment ==
    /\ assignmentContext # NoCtx
    /\ assignmentContext.role = "viewer" \/ assignmentContext.mode = "view"

\* C28 as stated: while the active assignment is read-only (role viewer or
\* mode view), no step sends a saveDraft request and no step changes the
\* local drafts of the assignments, whatever event reaches the handlers.
C28_ReadOnlySavesNoDraft ==
    [][ReadOnlyAssignment
         => /\ timerSave' = NoSave
            /\ ls'.formDraft = ls.formDraft
            /\ ls'.noteDraft = ls.noteDraft]_vars

\* C29 as stated: while an assignment is open read-only (role viewer or mode
\* view), no step of the page, whether started by a button click or by the
\* ArrowLeft / ArrowRight keys, leaves the page for another one.
C29_ReadOnlyNeverNavigates ==
    [][(ReadOnlyAssignment /\ phase = "ready") => phase' # "left"]_vars

\* C30 as stated: a submit whose evaluation POST succeeded ends with the page
\* navigated away or with the form reset under the success status, also when
\* the saveDraft or the done request that follows fails; it never ends as
\* 'Submission failed.' with the form left filled.
C30_RecordedSubmitNeverFails ==
    [][(submit.pc # "idle" /\ submit'.pc = "idle" /\ submit'.evalOk)
        => \/ phase' = "left"
           \/ /\ formStatus' = "Submitted successfully."
              /\ form' = ResetForm]_vars
(***************************************************************************)
(* Specifications                                                          *)
(***************************************************************************)
\* the whole page against a backend with a short queue.  The properties are
\* checked on the three slices below: each slice keeps the handlers that write
\* the variables its properties read
Next ==
    \/ PageInitStart
    \/ InitQueueResponse
    \/ InitGetResponse
    \/ FormInput
    \/ NotesInput
    \/ ClearForm
    \/ TimerFire
    \/ DraftSaveResponse
    \/ Tick
    \/ SubmitStart
    \/ SubmitEvalResponse
    \/ SubmitDraftResponse
    \/ SubmitDoneResponse
    \/ RefreshClick
    \/ RefreshResponse
    \/ NavClick
    \/ NavKey
    \/ NavQueueResponse
    \/ navigateScenarioList
    \/ endConversation

Spec == Init /\ [][Next]_vars

\* initialisation, the form, its drafts and its submission; no navigation
NextForm ==
    \/ PageInitStart
    \/ InitQueueResponse
    \/ InitGetResponse
    \/ FormInput
    \/ NotesInput
    \/ ClearForm
    \/ TimerFire
    \/ DraftSaveResponse
    \/ Tick
    \/ SubmitStart
    \/ SubmitEvalResponse
    \/ SubmitDraftResponse
    \/ SubmitDoneResponse

SpecForm == InitForm /\ [][NextForm]_vars

\* every operation that fetches or receives the assignment queue, and the form
\* input a submission needs; the debounce timer does not come due
NextQueue ==
    \/ PageInitStart
    \/ InitQueueResponse
    \/ InitGetResponse
    \/ FormInput
    \/ SubmitStart
    \/ SubmitEvalResponse
    \/ SubmitDraftResponse
    \/ SubmitDoneResponse
    \/ RefreshClick
    \/ RefreshResponse
    \/ NavClick
    \/ NavKey
    \/ NavQueueResponse
    \/ navigateScenarioList

SpecQueue == InitQueue /\ [][NextQueue]_vars

\* initialisation and navigation for every link, scenario document and queue;
\* the form is left alone
NextNav ==
    \/ PageInitStart
    \/ InitQueueResponse
    \/ InitGetResponse
    \/ RefreshClick
    \/ RefreshResponse
    \/ NavClick
    \/ NavKey
    \/ NavQueueResponse
    \/ navigateScenarioList
    \/ endConversation

SpecNav == InitNav /\ [][NextNav]_vars

\* single assignment requests, for every outcome of the fetch
SpecRequest == InitRequest /\ [][AssignmentRequest]_vars

\* single submissions to the sheet endpoint, for every outcome of the fetch
NextSheet ==
    \/ SheetSubmission
    \/ EvaluationSubmission

SpecSheet == InitSheet /\ [][NextSheet]_vars

\* single raw conversations through the message normalizer
SpecConversation == InitConversation /\ [][NormalizeConversation]_vars

\* single scenarios documents through the normalizer, once and again
NextDocument ==
    \/ NormalizeDocument
    \/ NormalizeAgain

SpecDocument == InitDocument /\ [][NextDocument]_vars

\* single category cells, for every selection of values
SpecCell == InitCell /\ [][BuildCategoryCell]_vars

\* single raw scenarios through normalizeScenarioRecord
SpecScenario == InitScenario /\ [][NormalizeScenario]_vars

\* single label lists through the editor and the console
NextLabels ==
    \/ StoreLabels
    \/ ShowStoredLabels
    \/ ShowLabels

SpecLabels == InitLabels /\ [][NextLabels]_vars

\* single forms through collectCustomFormState and applyCustomFormState
NextFormState ==
    \/ CollectThenApply
    \/ ApplyThenCollect

SpecFormState == InitFormState /\ [][NextFormState]_vars

\* an assignment opened read-only, and the edit events that reach the handlers
\* all the same
NextReadOnly ==
    \/ PageInitStart
    \/ InitQueueResponse
    \/ InitGetResponse
    \/ FormEventReadOnly
    \/ NotesEventReadOnly
    \/ TimerFire
    \/ DraftSaveResponse
    \/ Tick

SpecReadOnly == InitForm /\ [][NextReadOnly]_vars

====
